---------------------------- MODULE Spec2Model ----------------------------
(***************************************************************************)
(* A model of the py-compiler front end: Lexer, Parser, Environment,       *)
(* Compiler and the pythonf driver.                                        *)
(*                                                                         *)
(* Python strings are sequences of one-character strings; Python's None is *)
(* the string "None" for characters and a record of type "None" for        *)
(* tokens, nodes, values.  Indices into the source are 0-based as in the   *)
(* code, so source[i] of the code is source[i + 1] here.                   *)
(***************************************************************************)
EXTENDS Integers, Sequences, FiniteSets, TLC

VARIABLES
    source,     \* the source text handed to Lexer(source)
    lexer,      \* the Lexer object: position, read_position, line_no, current_char
    tokens,     \* the tokens returned so far by direct calls of Lexer.next_token
    parser,     \* the Parser object: current_token, peek_token, errors
    program,    \* Program.statements of the Program under construction / parsed
    compiler,   \* the Compiler object: env, builder, module, errors
    pc,         \* where the driver (or the caller of the lexer) stands
    iter,       \* iterations of parse_program's loop taken so far
    compiled,   \* statements of the Program that __visit_program has compiled
    scopes,     \* the Environment objects of a caller that uses Environment alone
    scope,      \* the Environment that caller works in: an index into scopes
    looked,     \* the name and the result of that caller's last lookup
    instances,  \* the Compiler objects of a process that compiles several programs
    inputs,     \* the Program each of those Compiler objects is given
    progress,   \* statements of its Program that each of them has compiled
    ir_Module   \* what the name Module of llvmlite.ir is bound to in the process

\* the state of compile_and_run and of the caller of the lexer
driverVars == <<source, lexer, tokens, parser, program, compiler, pc, iter, compiled>>
\* the state of the caller of Environment
scopeVars == <<scopes, scope, looked>>
\* the state of the process with several Compiler objects
processVars == <<instances, inputs, progress, ir_Module>>

vars == <<driverVars, scopeVars, processVars>>

-----------------------------------------------------------------------------
(* Bounds of the model *)

\* longest source text given to the lexer alone
MaxSrcLen == 4
\* calls of next_token made after the one that returned EOF
MaxEofCalls == 2
\* most lexemes of a source text made of arbitrary lexemes
MaxToks == 3
\* most iterations of parse_program's loop that are followed
MaxIter == 3
\* most lines of a program after its header
MaxLines == 3
\* most Environment objects of the caller of Environment
MaxScopes == 3
\* most statements of a program given to one of several Compiler objects
MaxStatements == 2

-----------------------------------------------------------------------------
(* Characters *)

None == "None"

Digits == {"0", "1", "2", "3", "4", "5", "6", "7", "8", "9"}

LowerLetters ==
    {"a", "b", "c", "d", "e", "f", "g", "h", "i", "j", "k", "l", "m",
     "n", "o", "p", "q", "r", "s", "t", "u", "v", "w", "x", "y", "z"}

UpperLetters ==
    {"A", "B", "C", "D", "E", "F", "G", "H", "I", "J", "K", "L", "M",
     "N", "O", "P", "Q", "R", "S", "T", "U", "V", "W", "X", "Y", "Z"}

is_digit(ch) == ch \in Digits

is_letter(ch) == ch \in LowerLetters \cup UpperLetters \cup {"_"}

\* str.isalnum on one character of the model's alphabet
isalnum(ch) == ch \in LowerLetters \cup UpperLetters \cup Digits

DigitVal(ch) ==
    CASE ch = "0" -> 0 [] ch = "1" -> 1 [] ch = "2" -> 2 [] ch = "3" -> 3
      [] ch = "4" -> 4 [] ch = "5" -> 5 [] ch = "6" -> 6 [] ch = "7" -> 7
      [] ch = "8" -> 8 [] ch = "9" -> 9

\* source[a:b] of the code (0-based, b exclusive, clipped to the text)
Slice(s, a, b) ==
    LET hi == IF b > Len(s) THEN Len(s) ELSE b
    IN  IF a >= hi THEN <<>> ELSE SubSeq(s, a + 1, hi)

RECURSIVE IntOf(_)
\* int(output) for a string of decimal digits
IntOf(s) ==
    IF s = <<>> THEN 0
    ELSE IntOf(SubSeq(s, 1, Len(s) - 1)) * 10 + DigitVal(s[Len(s)])

RECURSIVE Normalize(_, _)
Normalize(num, exp) ==
    IF exp > 0 /\ num % 10 = 0 THEN Normalize(num \div 10, exp - 1)
    ELSE [num |-> num, exp |-> exp]

\* float(output) for digits with exactly one point: the value num / 10^exp
\* in lowest decimal terms
FloatOf(s) ==
    LET dot  == CHOOSE i \in 1..Len(s) : s[i] = "."
        digs == SubSeq(s, 1, dot - 1) \o SubSeq(s, dot + 1, Len(s))
    IN  Normalize(IntOf(digs), Len(s) - dot)

-----------------------------------------------------------------------------
(* Token.py *)

KW_def == <<"d", "e", "f">>
KW_return == <<"r", "e", "t", "u", "r", "n">>
KW_print == <<"p", "r", "i", "n", "t">>
TY_int == <<"i", "n", "t">>
TY_float == <<"f", "l", "o", "a", "t">>

TYPE_KEYWORDS == {TY_int, TY_float}

Token(type, literal, line_no, position) ==
    [type |-> type, literal |-> literal, line_no |-> line_no, position |-> position]

lookup_identifier(identifier) ==
    IF identifier = KW_def THEN "DEF"
    ELSE IF identifier = KW_return THEN "RETURN"
    ELSE IF identifier = KW_print THEN "PRINT"
    ELSE IF identifier \in TYPE_KEYWORDS THEN "TYPE"
    ELSE IF identifier # <<>> /\ identifier[1] = "\"" /\ identifier[Len(identifier)] = "\""
         THEN "STRING"
    ELSE "IDENTIFIER"

-----------------------------------------------------------------------------
(* Lexer.py: every operator reads the text from the variable source *)

\* read_char with the increment of read_position left out
read_char_stuck(l) ==
    [l EXCEPT !.current_char = IF l.read_position >= Len(source) THEN None
                               ELSE source[l.read_position + 1],
              !.position = l.read_position]

read_char(l) ==
    [l EXCEPT !.current_char = IF l.read_position >= Len(source) THEN None
                               ELSE source[l.read_position + 1],
              !.position = l.read_position,
              !.read_position = l.read_position + 1]

\* Lexer.__init__
LexerInit ==
    read_char([position |-> 0, read_position |-> 0, line_no |-> 1, current_char |-> None])

peek_char(l) ==
    IF l.read_position >= Len(source) THEN None ELSE source[l.read_position + 1]

RECURSIVE skip_whitespace(_)
skip_whitespace(l) ==
    IF l.current_char \in {" ", "\t", "\r"}
    THEN skip_whitespace(read_char(
            IF l.current_char = "\n" THEN [l EXCEPT !.line_no = l.line_no + 1] ELSE l))
    ELSE l

new_token(l, tt, literal) == Token(tt, literal, l.line_no, l.position)

RECURSIVE read_number_loop(_, _, _, _)
\* the while loop of __read_number; yields the lexer and the token
read_number_loop(l, start_pos, dot_count, output) ==
    IF is_digit(l.current_char) \/ l.current_char = "."
    THEN LET dc == IF l.current_char = "." THEN dot_count + 1 ELSE dot_count
         IN  IF dc > 1
             THEN [lexer |-> l,
                   tok |-> new_token(l, "ILLEGAL", Slice(source, start_pos, l.position))]
             ELSE LET out == Append(output, source[l.position + 1])
                      l2  == read_char(l)
                  IN  IF l2.current_char = None
                      THEN [lexer |-> l2,
                            tok |-> IF dc = 0 THEN new_token(l2, "INT", IntOf(out))
                                    ELSE new_token(l2, "FLOAT", FloatOf(out))]
                      ELSE read_number_loop(l2, start_pos, dc, out)
    ELSE [lexer |-> l,
          tok |-> IF dot_count = 0 THEN new_token(l, "INT", IntOf(output))
                  ELSE new_token(l, "FLOAT", FloatOf(output))]

read_number(l) == read_number_loop(l, l.position, 0, <<>>)

RECURSIVE read_identifier_loop(_)
read_identifier_loop(l) ==
    IF l.current_char # None /\ (is_letter(l.current_char) \/ isalnum(l.current_char))
    THEN read_identifier_loop(read_char(l))
    ELSE l

\* yields the lexer after the identifier and the identifier's text
read_identifier(l) ==
    LET l2 == read_identifier_loop(l)
    IN  [lexer |-> l2, literal |-> Slice(source, l.position, l2.position)]

\* one-character tokens of next_token's match statement
SingleCharType(ch) ==
    CASE ch = "+" -> "PLUS"
      [] ch = "/" -> "SLASH"
      [] ch = "%" -> "MODULUS"
      [] ch = "=" -> "EQ"
      [] ch = ":" -> "COLON"
      [] ch = "(" -> "LPAREN"
      [] ch = ")" -> "RPAREN"

\* the case '-' of next_token, before the trailing __read_char
LexMinus(l) ==
    IF peek_char(l) = ">"
    THEN LET l2 == read_char(l)
         IN  [lexer |-> l2, tok |-> new_token(l2, "ARROW", <<l.current_char, l2.current_char>>)]
    ELSE [lexer |-> l, tok |-> new_token(l, "MINUS", <<l.current_char>>)]

\* the case '*' without the one-character lookahead
LexAsterisk_nolookahead(l) ==
    [lexer |-> l, tok |-> new_token(l, "ASTERISK", <<l.current_char>>)]

\* the case '*' of next_token, before the trailing __read_char
LexAsterisk(l) ==
    IF peek_char(l) = "*"
    THEN LET l2 == read_char(l)
         IN  [lexer |-> l2, tok |-> new_token(l2, "POWER", <<l.current_char, l2.current_char>>)]
    ELSE [lexer |-> l, tok |-> new_token(l, "ASTERISK", <<l.current_char>>)]

\* Lexer.next_token: yields the lexer after the call and the token returned
next_token(l0) ==
    LET l  == skip_whitespace(l0)
        ch == l.current_char
        Finish(r) == [lexer |-> read_char(r.lexer), tok |-> r.tok]
    IN  IF ch \in {"+", "/", "%", "=", ":", "(", ")"}
            THEN Finish([lexer |-> l, tok |-> new_token(l, SingleCharType(ch), <<ch>>)])
        ELSE IF ch = "-" THEN Finish(LexMinus(l))
        ELSE IF ch = "*" THEN Finish(LexAsterisk(l))
        ELSE IF ch = "\n"
            THEN Finish([lexer |-> l,
                         tok |-> new_token(l, "NEWLINE", <<"N", "E", "W", "L", "I", "N", "E">>)])
        ELSE IF ch = None
            THEN Finish([lexer |-> l, tok |-> new_token(l, "EOF", <<>>)])
        ELSE IF is_letter(ch)
            THEN LET r == read_identifier(l)
                 IN  [lexer |-> r.lexer,
                      tok |-> new_token(r.lexer, lookup_identifier(r.literal), r.literal)]
        ELSE IF is_digit(ch) THEN read_number(l)
        ELSE Finish([lexer |-> l, tok |-> new_token(l, "ILLEGAL", <<ch>>)])

NoneTok == [type |-> "None"]

-----------------------------------------------------------------------------
(* AST.py: a node is a record whose field type is its NodeType *)

NoneNode == [type |-> "None"]

Program(statements) == [type |-> "Program", statements |-> statements]
ExpressionStatement(expr) == [type |-> "ExpressionStatement", expr |-> expr]
VariableStatement(name, value, value_type) ==
    [type |-> "VariableStatement", name |-> name, value |-> value, value_type |-> value_type]
FunctionStatement(parameters, body, name, return_type) ==
    [type |-> "FunctionStatement", parameters |-> parameters, body |-> body,
     name |-> name, return_type |-> return_type]
BlockStatement(statements) == [type |-> "BlockStatement", statements |-> statements]
ReturnStatement(return_value) == [type |-> "ReturnStatement", return_value |-> return_value]
AssignStatement(identifier, right_value) ==
    [type |-> "AssignStatement", identifier |-> identifier, right_value |-> right_value]
InfixExpression(left_node, operator, right_node) ==
    [type |-> "InfixExpression", left_node |-> left_node, operator |-> operator,
     right_node |-> right_node]
CallExpression(function, arguments) ==
    [type |-> "CallExpression", function |-> function, arguments |-> arguments]
IntegerLiteral(value) == [type |-> "IntegerLiteral", value |-> value]
FloatLiteral(value) == [type |-> "FloatLiteral", value |-> value]
IdentifierLiteral(value) == [type |-> "IdentifierLiteral", value |-> value]

-----------------------------------------------------------------------------
(* Parser.py.  A parser p is the Parser object together with its Lexer:      *)
(* [lexer, current_token, peek_token, errors].  A parse function yields the  *)
(* parser after the call and the node returned: [p, node].                   *)

P_LOWEST == 0
P_HIGHEST == 1
P_LESSGREATER == 2
P_SUM == 3
P_PRODUCT == 4
P_EXPONENT == 5
P_PREFIX == 6
P_CALL == 7
P_INDEX == 8

\* PRECEDENCES with ASTERISK, SLASH and MODULUS entered as P_SUM and POWER as
\* P_PRODUCT
PRECEDENCES_flat(tt) ==
    CASE tt \in {"PLUS", "MINUS", "SLASH", "ASTERISK", "MODULUS"} -> P_SUM
      [] tt = "POWER" -> P_PRODUCT
      [] tt = "LPAREN" -> P_CALL
      [] OTHER -> P_LOWEST

\* PRECEDENCES.get(tt), with P_LOWEST for a token type that has no entry
PRECEDENCES(tt) ==
    CASE tt \in {"PLUS", "MINUS"} -> P_SUM
      [] tt \in {"SLASH", "ASTERISK", "MODULUS"} -> P_PRODUCT
      [] tt = "POWER" -> P_EXPONENT
      [] tt = "LPAREN" -> P_CALL
      [] OTHER -> P_LOWEST

\* the keys of prefix_parse_fns and infix_parse_fns
PrefixTypes == {"IDENTIFIER", "INT", "FLOAT", "LPAREN"}
InfixTypes == {"PLUS", "MINUS", "SLASH", "ASTERISK", "POWER", "MODULUS", "LPAREN"}

\* the assignments of __next_token, r being what lexer.next_token() yields
shift_token(p, r) ==
    [p EXCEPT !.current_token = p.peek_token, !.peek_token = r.tok, !.lexer = r.lexer]

\* Parser.__next_token
p_next_token(p) == shift_token(p, next_token(p.lexer))

\* Parser.__init__
ParserInit(l) ==
    p_next_token(p_next_token(
        [lexer |-> l, current_token |-> NoneTok, peek_token |-> NoneTok, errors |-> <<>>]))

current_token_is(p, tt) == p.current_token.type = tt

peek_token_is(p, tt) == p.peek_token.type = tt

peek_error(p, tt) ==
    [p EXCEPT !.errors = Append(@, [msg |-> "Expected next token", tt |-> tt,
                                    got |-> p.peek_token.type])]

no_prefix_parse_fn_error(p, tt) ==
    [p EXCEPT !.errors = Append(@, [msg |-> "No prefix parse function found for", tt |-> tt,
                                    got |-> ""])]

\* yields [p, ok]
expect_peek(p, tt) ==
    IF peek_token_is(p, tt) THEN [p |-> p_next_token(p), ok |-> TRUE]
    ELSE [p |-> peek_error(p, tt), ok |-> FALSE]

current_precedence(p) == PRECEDENCES(p.current_token.type)

peek_precedence(p) == PRECEDENCES(p.peek_token.type)

RECURSIVE skip_newlines(_)
\* while self.__current_token_is(NEWLINE): self.__next_token()
skip_newlines(p) ==
    IF current_token_is(p, "NEWLINE") THEN skip_newlines(p_next_token(p)) ELSE p

RECURSIVE skip_peek_newlines(_)
\* while self.__peek_token_is(NEWLINE): self.__next_token()
skip_peek_newlines(p) ==
    IF peek_token_is(p, "NEWLINE") THEN skip_peek_newlines(p_next_token(p)) ELSE p

parse_identifier(p) == [p |-> p, node |-> IdentifierLiteral(p.current_token.literal)]

\* int() of an INT token's literal, which is an int already, cannot fail
parse_int_literal(p) == [p |-> p, node |-> IntegerLiteral(p.current_token.literal)]

parse_float_literal(p) == [p |-> p, node |-> FloatLiteral(p.current_token.literal)]

RECURSIVE parse_expression(_, _)
RECURSIVE parse_expression_loop(_, _, _)
RECURSIVE parse_grouped_expression(_)
RECURSIVE parse_infix_expression(_, _)
RECURSIVE parse_statement(_)
RECURSIVE parse_block_loop(_, _)

\* ClimbCondition with <= in place of <: an operator of the same precedence
\* goes on into the right operand
ClimbCondition_le(p, precedence) ==
    /\ ~peek_token_is(p, "EOF")
    /\ ~peek_token_is(p, "NEWLINE")
    /\ precedence <= peek_precedence(p)

\* the loop condition of __parse_expression
ClimbCondition(p, precedence) ==
    /\ ~peek_token_is(p, "EOF")
    /\ ~peek_token_is(p, "NEWLINE")
    /\ precedence < peek_precedence(p)

\* what a parse function yields: the parser after the call and the node
Parsed(p, node) == [p |-> p, node |-> node]

\* if not self.__expect_peek(...): return None, and node otherwise; e is what
\* __expect_peek yielded
node_if_expected(e, node) ==
    IF ~e.ok THEN Parsed(e.p, NoneNode) ELSE Parsed(e.p, node)

parse_call_expression(p, function) ==
    node_if_expected(expect_peek(p, "RPAREN"), CallExpression(function, <<>>))

\* __parse_infix_expression once the right operand r is parsed
infix_expression_of(left_node, operator, r) ==
    Parsed(r.p, InfixExpression(left_node, operator, r.node))

parse_infix_expression(p, left_node) ==
    infix_expression_of(left_node, p.current_token.literal,
                        parse_expression(p_next_token(p), current_precedence(p)))

\* __parse_grouped_expression once the inner expression r is parsed
grouped_expression_close(r) == node_if_expected(expect_peek(r.p, "RPAREN"), r.node)

parse_grouped_expression(p) ==
    grouped_expression_close(parse_expression(p_next_token(p), P_LOWEST))

\* left_expr = infix_func(left_expr) and the next turn of the loop
parse_expression_again(r, precedence) == parse_expression_loop(r.p, r.node, precedence)

\* the call of the infix parse function, after self.__next_token()
parse_expression_infix(p, left_expr, precedence) ==
    IF p.current_token.type = "LPAREN"
    THEN parse_expression_again(parse_call_expression(p, left_expr), precedence)
    ELSE parse_expression_again(parse_infix_expression(p, left_expr), precedence)

\* the body of the while loop, after its skipping of NEWLINE tokens
parse_expression_body(p, left_expr, precedence) ==
    IF p.peek_token.type \notin InfixTypes
    THEN Parsed(p, left_expr)
    ELSE parse_expression_infix(p_next_token(p), left_expr, precedence)

\* the while loop of __parse_expression
parse_expression_loop(p, left_expr, precedence) ==
    IF ClimbCondition(p, precedence)
    THEN parse_expression_body(skip_peek_newlines(p), left_expr, precedence)
    ELSE Parsed(p, left_expr)

\* the lookup and call of the prefix parse function
parse_expression_prefix(p, precedence) ==
    IF p.current_token.type \notin PrefixTypes
    THEN Parsed(no_prefix_parse_fn_error(p, p.current_token.type), NoneNode)
    ELSE parse_expression_again(
            CASE p.current_token.type = "IDENTIFIER" -> parse_identifier(p)
              [] p.current_token.type = "INT" -> parse_int_literal(p)
              [] p.current_token.type = "FLOAT" -> parse_float_literal(p)
              [] p.current_token.type = "LPAREN" -> parse_grouped_expression(p),
            precedence)

parse_expression(p, precedence) ==
    parse_expression_prefix(skip_newlines(p), precedence)

\* __parse_expression_statement once the expression r is parsed
expression_statement_end(r) ==
    Parsed(IF peek_token_is(r.p, "NEWLINE") THEN p_next_token(r.p) ELSE r.p,
           ExpressionStatement(r.node))

parse_expression_statement(p) == expression_statement_end(parse_expression(p, P_LOWEST))

\* skip_to_end_of_statement that skips nothing
skip_to_end_of_statement_none(p) == p

RECURSIVE skip_to_end_of_statement(_)
\* while not NEWLINE and not EOF: self.__next_token()
skip_to_end_of_statement(p) ==
    IF ~current_token_is(p, "NEWLINE") /\ ~current_token_is(p, "EOF")
    THEN skip_to_end_of_statement(p_next_token(p))
    ELSE p

\* __parse_variable_statement once the value r is parsed
variable_statement_end(r, name, value_type) ==
    Parsed(skip_to_end_of_statement(r.p), VariableStatement(name, r.node, value_type))

\* ... after __expect_peek(EQ) yielded e
variable_statement_value(e, name, value_type) ==
    IF ~e.ok THEN Parsed(e.p, NoneNode)
    ELSE variable_statement_end(parse_expression(p_next_token(e.p), P_LOWEST),
                                name, value_type)

\* ... after __expect_peek(TYPE) yielded e
variable_statement_eq(e, name) ==
    IF ~e.ok THEN Parsed(e.p, NoneNode)
    ELSE variable_statement_value(expect_peek(e.p, "EQ"), name, e.p.current_token.literal)

\* ... after __expect_peek(COLON) yielded e
variable_statement_type(e, name) ==
    IF ~e.ok THEN Parsed(e.p, NoneNode)
    ELSE variable_statement_eq(expect_peek(e.p, "TYPE"), name)

parse_variable_statement(p) ==
    IF ~current_token_is(p, "IDENTIFIER") THEN Parsed(p, NoneNode)
    ELSE variable_statement_type(expect_peek(p, "COLON"),
                                 IdentifierLiteral(p.current_token.literal))

\* __parse_return_statement once the value r is parsed
return_statement_end(r) ==
    node_if_expected(expect_peek(r.p, "NEWLINE"), ReturnStatement(r.node))

parse_return_statement(p) ==
    return_statement_end(parse_expression(p_next_token(p), P_LOWEST))

\* __parse_assign_statement once the right-hand side r is parsed
assign_statement_end(r, identifier) ==
    Parsed(p_next_token(r.p), AssignStatement(identifier, r.node))

parse_assign_statement(p) ==
    assign_statement_end(parse_expression(p_next_token(p_next_token(p)), P_LOWEST),
                         IdentifierLiteral(p.current_token.literal))

\* parse_block_collect that leaves the loop after the first statement
parse_block_collect_once(r, statements) ==
    Parsed(p_next_token(r.p),
           BlockStatement(IF r.node.type # "None" THEN Append(statements, r.node)
                          ELSE statements))

\* one turn of the loop of __parse_block_statement, r being the statement
parse_block_collect(r, statements) ==
    parse_block_loop(p_next_token(r.p),
                     IF r.node.type # "None" THEN Append(statements, r.node)
                     ELSE statements)

\* the while loop of __parse_block_statement
parse_block_loop(p, statements) ==
    IF ~current_token_is(p, "EOF")
    THEN parse_block_collect(parse_statement(p), statements)
    ELSE Parsed(p, BlockStatement(statements))

parse_block_statement(p) == parse_block_loop(p_next_token(p), <<>>)

\* __parse_function_statement once the body b is parsed
function_statement_end(b, name, return_type) ==
    Parsed(b.p, FunctionStatement(<<>>, b.node, name, return_type))

\* ... after __expect_peek(COLON) yielded e
function_statement_body(e, name, return_type) ==
    IF ~e.ok THEN Parsed(e.p, NoneNode)
    ELSE function_statement_end(parse_block_statement(e.p), name, return_type)

\* ... after __expect_peek(TYPE) yielded e
function_statement_colon(e, name) ==
    IF ~e.ok THEN Parsed(e.p, NoneNode)
    ELSE function_statement_body(expect_peek(e.p, "COLON"), name,
                                 e.p.current_token.literal)

\* ... after __expect_peek(ARROW) yielded e
function_statement_type(e, name) ==
    IF ~e.ok THEN Parsed(e.p, NoneNode)
    ELSE function_statement_colon(expect_peek(e.p, "TYPE"), name)

\* ... after __expect_peek(RPAREN) yielded e
function_statement_arrow(e, name) ==
    IF ~e.ok THEN Parsed(e.p, NoneNode)
    ELSE function_statement_type(expect_peek(e.p, "ARROW"), name)

\* ... after __expect_peek(LPAREN) yielded e
function_statement_rparen(e, name) ==
    IF ~e.ok THEN Parsed(e.p, NoneNode)
    ELSE function_statement_arrow(expect_peek(e.p, "RPAREN"), name)

\* ... after __expect_peek(IDENTIFIER) yielded e
function_statement_lparen(e) ==
    IF ~e.ok THEN Parsed(e.p, NoneNode)
    ELSE function_statement_rparen(expect_peek(e.p, "LPAREN"),
                                   IdentifierLiteral(e.p.current_token.literal))

parse_function_statement(p) == function_statement_lparen(expect_peek(p, "IDENTIFIER"))

\* parse_statement_dispatch without the test of the lookahead token
parse_statement_dispatch_nopeek(p) ==
    IF p.current_token.type = "IDENTIFIER" THEN parse_variable_statement(p)
    ELSE IF p.current_token.type = "DEF" THEN parse_function_statement(p)
    ELSE IF p.current_token.type = "RETURN" THEN parse_return_statement(p)
    ELSE parse_expression_statement(p)

\* the dispatch of __parse_statement on the current token
parse_statement_dispatch(p) ==
    IF p.current_token.type = "IDENTIFIER"
    THEN IF peek_token_is(p, "EQ") THEN parse_assign_statement(p)
         ELSE parse_variable_statement(p)
    ELSE IF p.current_token.type = "DEF" THEN parse_function_statement(p)
    ELSE IF p.current_token.type = "RETURN" THEN parse_return_statement(p)
    ELSE parse_expression_statement(p)

parse_statement(p) == parse_statement_dispatch(skip_newlines(p))

-----------------------------------------------------------------------------
(* Environment.py.  The Environment objects of one compilation live in the   *)
(* sequence envs; an Environment is named by its index there and parent 0 is *)
(* None.  records maps a name to <<value, type>>; lookup's None is <<>>.     *)

Environment(parent) == [records |-> <<>>, parent |-> parent, name |-> "global"]

\* define that writes the record into every Environment
define_everywhere(envs, e, name, value, type) ==
    [k \in DOMAIN envs |->
        [envs[k] EXCEPT !.records =
            [n \in DOMAIN envs[k].records \cup {name} |->
                IF n = name THEN <<value, type>> ELSE envs[k].records[n]]]]

\* Environment.define on the Environment e
define(envs, e, name, value, type) ==
    [envs EXCEPT ![e].records =
        [n \in DOMAIN envs[e].records \cup {name} |->
            IF n = name THEN <<value, type>> ELSE envs[e].records[n]]]

RECURSIVE resolve_outermost(_, _, _)
\* __resolve that asks the parent first
resolve_outermost(envs, e, name) ==
    IF envs[e].parent # 0 /\ resolve_outermost(envs, envs[e].parent, name) # <<>>
    THEN resolve_outermost(envs, envs[e].parent, name)
    ELSE IF name \in DOMAIN envs[e].records THEN envs[e].records[name]
    ELSE <<>>

RECURSIVE resolve(_, _, _)
\* Environment.__resolve
resolve(envs, e, name) ==
    IF name \in DOMAIN envs[e].records THEN envs[e].records[name]
    ELSE IF envs[e].parent # 0 THEN resolve(envs, envs[e].parent, name)
    ELSE <<>>

\* Environment.lookup on the Environment e
lookup(envs, e, name) == resolve(envs, e, name)

-----------------------------------------------------------------------------
(* Compiler.py.  The backend (llvmlite) is a recorder: every builder call    *)
(* appends one instruction to the block the builder is positioned at, and    *)
(* yields the instruction as its value.  builder is the index of that block  *)
(* in blocks; 0 is ir.IRBuilder() with no block, whose instructions are kept *)
(* in nowhere.  fault names the Python exception that ended the compilation. *)

NoneVal == [kind |-> "None"]
NoneType == "None"
IntType == "i32"
FloatType == "float"

Constant(type, value) == [kind |-> "const", type |-> type, value |-> value]

type_map(t) ==
    IF t = TY_int THEN IntType
    ELSE IF t = TY_float THEN FloatType
    ELSE NoneType

\* Compiler.__init__
CompilerInit ==
    [functions |-> <<>>, blocks |-> <<>>, nowhere |-> <<>>, ninstr |-> 0,
     builder |-> 0, envs |-> <<Environment(0)>>, env |-> 1, errors |-> <<>>,
     fault |-> "None"]

Raise(c, exception) == [c EXCEPT !.fault = exception]

\* a builder call at line site of Compiler.py: the compiler after it, and the
\* value it yields
Insert(c, op, type, operands, name, site) ==
    LET ins == [id |-> c.ninstr + 1, op |-> op, type |-> type, operands |-> operands,
                name |-> name, site |-> site]
        c2  == IF c.builder = 0
               THEN [c EXCEPT !.nowhere = Append(@, ins), !.ninstr = @ + 1]
               ELSE [c EXCEPT !.blocks[c.builder].instrs = Append(@, ins), !.ninstr = @ + 1]
    IN  [c |-> c2, value |-> [kind |-> "inst", id |-> ins.id]]

\* what an expression visitor yields
Result(c, value, type) == [c |-> c, value |-> value, type |-> type]

\* IntOps with the instructions of + and - exchanged
IntOps_exchanged(operator) ==
    CASE operator = <<"+">> -> "sub"
      [] operator = <<"-">> -> "add"
      [] operator = <<"*">> -> "mul"
      [] operator = <<"/">> -> "sdiv"
      [] operator = <<"%">> -> "srem"
      [] OTHER -> "None"

IntOps(operator) ==
    CASE operator = <<"+">> -> "add"
      [] operator = <<"-">> -> "sub"
      [] operator = <<"*">> -> "mul"
      [] operator = <<"/">> -> "sdiv"
      [] operator = <<"%">> -> "srem"
      [] OTHER -> "None"

FloatOps(operator) ==
    CASE operator = <<"+">> -> "fadd"
      [] operator = <<"-">> -> "fsub"
      [] operator = <<"*">> -> "fmul"
      [] operator = <<"/">> -> "fdiv"
      [] OTHER -> "None"

\* the line of Compiler.py at which the builder call of an operator stands
IntSite(operator) ==
    CASE operator = <<"+">> -> 185
      [] operator = <<"-">> -> 187
      [] operator = <<"*">> -> 189
      [] operator = <<"/">> -> 191
      [] operator = <<"%">> -> 193

FloatSite(operator) ==
    CASE operator = <<"+">> -> 202
      [] operator = <<"-">> -> 204
      [] operator = <<"*">> -> 206
      [] operator = <<"/">> -> 208

RECURSIVE compile(_, _)
RECURSIVE compile_all(_, _, _)
RECURSIVE resolve_value(_, _)
RECURSIVE resolve_arguments(_, _, _, _)
RECURSIVE visit_infix_expression(_, _)
RECURSIVE visit_call_expression(_, _)
RECURSIVE visit_function_statement(_, _)

\* what a builder call yields as an expression visitor's result
Emitted(i, type) == Result(i.c, i.value, type)

\* the IdentifierLiteral case of __resolve_value, b being what lookup yielded
resolve_identifier(c, b) ==
    IF b = <<>> THEN Result(Raise(c, "TypeError"), NoneVal, NoneType)
    ELSE Emitted(Insert(c, "load", b[2], <<b[1]>>, <<>>, 254), b[2])

\* value, Type = self.__resolve_value(node) as every caller writes it: a
\* None returned by __resolve_value cannot be unpacked
resolve_value(c, node) ==
    CASE node.type = "None" -> Result(Raise(c, "AttributeError"), NoneVal, NoneType)
      [] node.type = "IntegerLiteral" ->
            Result(c, Constant(IntType, node.value), IntType)
      [] node.type = "FloatLiteral" ->
            Result(c, Constant(FloatType, node.value), FloatType)
      [] node.type = "IdentifierLiteral" ->
            resolve_identifier(c, lookup(c.envs, c.env, node.value))
      [] node.type = "InfixExpression" -> visit_infix_expression(c, node)
      [] node.type = "CallExpression" -> visit_call_expression(c, node)
      [] OTHER -> Result(Raise(c, "TypeError"), NoneVal, NoneType)

\* __visit_infix_expression once both operands l and r are resolved
infix_operate(l, r, operator) ==
    IF r.c.fault # "None" THEN r
    ELSE IF r.type = IntType /\ l.type = IntType
    THEN IF IntOps(operator) # "None"
         THEN Emitted(Insert(r.c, IntOps(operator), IntType,
                             <<l.value, r.value>>, <<>>, IntSite(operator)), IntType)
         ELSE Result(r.c, NoneVal, IntType)
    ELSE IF r.type = FloatType /\ l.type = FloatType
    THEN IF FloatOps(operator) # "None"
         THEN Emitted(Insert(r.c, FloatOps(operator), FloatType,
                             <<l.value, r.value>>, <<>>, FloatSite(operator)), FloatType)
         ELSE Result(r.c, NoneVal, FloatType)
    ELSE Result(r.c, NoneVal, NoneType)

\* ... once the left operand l is resolved
infix_right(l, node) ==
    IF l.c.fault # "None" THEN l
    ELSE infix_operate(l, resolve_value(l.c, node.right_node), node.operator)

visit_infix_expression(c, node) == infix_right(resolve_value(c, node.left_node), node)

\* one turn of the for loop of __visit_call_expression, r being the argument
resolve_arguments_collect(r, params, k, args) ==
    resolve_arguments(r.c, params, k + 1, Append(args, r.value))

\* the for loop of __visit_call_expression: yields [c, args]
resolve_arguments(c, params, k, args) ==
    IF k > Len(params) \/ c.fault # "None" THEN [c |-> c, args |-> args]
    ELSE resolve_arguments_collect(resolve_value(c, params[k]), params, k, args)

\* func, ret_type = self.env.lookup(name) and the call, b being what lookup
\* yielded
call_emit(a, b) ==
    IF b = <<>> THEN Result(Raise(a.c, "TypeError"), NoneVal, NoneType)
    ELSE Emitted(Insert(a.c, "call", b[2], <<b[1]>> \o a.args, <<>>, 236), b[2])

\* __visit_call_expression once the arguments a are resolved
call_callee(a, node) ==
    IF a.c.fault # "None" THEN Result(a.c, NoneVal, NoneType)
    ELSE call_emit(a, IF node.function.type = "IdentifierLiteral"
                      THEN lookup(a.c.envs, a.c.env, node.function.value)
                      ELSE <<>>)

visit_call_expression(c, node) ==
    IF node.function.type \notin {"IdentifierLiteral", "IntegerLiteral", "FloatLiteral"}
    THEN Result(Raise(c, "AttributeError"), NoneVal, NoneType)
    ELSE call_callee(resolve_arguments(c, node.arguments, 1, <<>>), node)

\* self.env.define(name, ptr, Type), st being what builder.store yielded
variable_define(st, name, ptr, type) ==
    [st.c EXCEPT !.envs = define(@, st.c.env, name, ptr.value, type)]

\* self.builder.store(value, ptr), ptr being what builder.alloca yielded
variable_store(ptr, r, name) ==
    variable_define(Insert(ptr.c, "store", NoneType, <<r.value, ptr.value>>, <<>>, 89),
                    name, ptr, r.type)

\* the branch of __visit_variable_statement that declares a new variable
variable_declare(r, name, llvm_type) ==
    IF llvm_type = NoneType
    THEN [r.c EXCEPT !.errors = Append(@, [msg |-> "Unknown type", name |-> name])]
    ELSE variable_store(Insert(r.c, "alloca", llvm_type, <<>>, name, 86), r, name)

\* variable_bind with the else branch left out: every declaration allocates
variable_bind_realloc(r, b, node) ==
    variable_declare(r, node.name.value, type_map(node.value_type))

\* if self.env.lookup(name) is None ... else ..., b being what lookup yielded
variable_bind(r, b, node) ==
    IF b = <<>> THEN variable_declare(r, node.name.value, type_map(node.value_type))
    ELSE Insert(r.c, "store", NoneType, <<r.value, b[1]>>, <<>>, 97).c

\* __visit_variable_statement once the value r is resolved
variable_value(r, node) ==
    IF r.c.fault # "None" THEN r.c
    ELSE variable_bind(r, lookup(r.c.envs, r.c.env, node.name.value), node)

visit_variable_statement(c, node) == variable_value(resolve_value(c, node.value), node)

\* return_value without the builder call: no ret is emitted
return_value_silent(r) == r.c

\* __visit_return_statement once the value r is resolved
return_value(r) ==
    IF r.c.fault # "None" THEN r.c
    ELSE Insert(r.c, "ret", NoneType, <<r.value>>, <<>>, 109).c

visit_return_statement(c, node) == return_value(resolve_value(c, node.return_value))

\* assign_bind that declares a name it finds unbound
assign_bind_declaring(r, b, name) ==
    IF b = <<>> THEN variable_declare(r, name, r.type)
    ELSE Insert(r.c, "store", NoneType, <<r.value, b[1]>>, <<>>, 168).c

\* if self.env.lookup(name) is None ... else ..., b being what lookup yielded
assign_bind(r, b, name) ==
    IF b = <<>>
    THEN [r.c EXCEPT !.errors = Append(@, [msg |-> "has not been declared", name |-> name])]
    ELSE Insert(r.c, "store", NoneType, <<r.value, b[1]>>, <<>>, 168).c

\* __visit_assign_statement once the right-hand side r is resolved
assign_value(r, name) ==
    IF r.c.fault # "None" THEN r.c
    ELSE assign_bind(r, lookup(r.c.envs, r.c.env, name), name)

visit_assign_statement(c, node) ==
    assign_value(resolve_value(c, node.right_value), node.identifier.value)

\* the loop of __visit_program and of __visit_block_statement from statement k
compile_all(c, statements, k) ==
    IF k > Len(statements) \/ c.fault # "None" THEN c
    ELSE compile_all(compile(c, statements[k]), statements, k + 1)

\* __visit_block_statement
visit_block_statement(c, node) == compile_all(c, node.statements, 1)

\* __visit_expression_statement
visit_expression_statement(c, node) == compile(c, node.expr)

\* function_enter that does not define the function in the new Environment
function_enter_unbound(c, name, return_type) ==
    [c EXCEPT !.functions = Append(@, [name |-> name, return_type |-> return_type,
                                       blocks |-> <<Len(c.blocks) + 1>>]),
              !.blocks = Append(@, [function |-> Len(c.functions) + 1,
                                    name |-> name \o <<"_", "e", "n", "t", "r", "y">>,
                                    instrs |-> <<>>]),
              !.builder = Len(c.blocks) + 1,
              !.envs = Append(@, Environment(c.env)),
              !.env = Len(c.envs) + 1]

\* __visit_function_statement up to self.compile(body): the function, its
\* entry block, the builder positioned there, the new Environment with the
\* function defined in it
function_enter(c, name, return_type) ==
    [c EXCEPT !.functions = Append(@, [name |-> name, return_type |-> return_type,
                                       blocks |-> <<Len(c.blocks) + 1>>]),
              !.blocks = Append(@, [function |-> Len(c.functions) + 1,
                                    name |-> name \o <<"_", "e", "n", "t", "r", "y">>,
                                    instrs |-> <<>>]),
              !.builder = Len(c.blocks) + 1,
              !.envs = define(Append(@, Environment(c.env)), Len(c.envs) + 1, name,
                              [kind |-> "func", name |-> name,
                               index |-> Len(c.functions) + 1],
                              return_type),
              !.env = Len(c.envs) + 1]

\* function_leave that stays in the Environment of the body
function_leave_inside(c2, c, name, return_type) ==
    IF c2.fault # "None" THEN c2
    ELSE [c2 EXCEPT !.envs = define(@, c2.env, name,
                                    [kind |-> "func", name |-> name,
                                     index |-> Len(c.functions) + 1],
                                    return_type),
                    !.builder = c.builder]

\* __visit_function_statement after self.compile(body) returned c2: an
\* exception leaves everything as it is
function_leave(c2, c, name, return_type) ==
    IF c2.fault # "None" THEN c2
    ELSE [c2 EXCEPT !.env = c.env,
                    !.envs = define(@, c.env, name,
                                    [kind |-> "func", name |-> name,
                                     index |-> Len(c.functions) + 1],
                                    return_type),
                    !.builder = c.builder]

visit_function_statement(c, node) ==
    IF node.parameters # <<>> THEN Raise(c, "AttributeError")
    ELSE IF type_map(node.return_type) = NoneType THEN Raise(c, "KeyError")
    ELSE function_leave(compile(function_enter(c, node.name.value,
                                               type_map(node.return_type)),
                                node.body),
                        c, node.name.value, type_map(node.return_type))

\* Compiler.compile; the expression visitors' results are dropped
compile(c, node) ==
    CASE node.type = "None" -> Raise(c, "AttributeError")
      [] node.type = "Program" -> compile_all(c, node.statements, 1)
      [] node.type = "VariableStatement" -> visit_variable_statement(c, node)
      [] node.type = "ExpressionStatement" -> visit_expression_statement(c, node)
      [] node.type = "BlockStatement" -> visit_block_statement(c, node)
      [] node.type = "FunctionStatement" -> visit_function_statement(c, node)
      [] node.type = "ReturnStatement" -> visit_return_statement(c, node)
      [] node.type = "AssignStatement" -> visit_assign_statement(c, node)
      [] node.type = "InfixExpression" -> visit_infix_expression(c, node).c
      [] node.type = "CallExpression" -> visit_call_expression(c, node).c
      [] OTHER -> c

-----------------------------------------------------------------------------
(* The lexer driven alone: a caller that calls next_token again and again *)

LexAlphabet == {"*", "-", ">", "1", ".", " ", "a"}

RECURSIVE SeqsUpTo(_, _)
\* all sequences over S of length at most n
SeqsUpTo(S, n) ==
    IF n = 0 THEN {<<>>}
    ELSE LET shorter == SeqsUpTo(S, n - 1)
         IN  shorter \cup {Append(s, x) : s \in {t \in shorter : Len(t) = n - 1}, x \in S}

Malformed == <<"1", ".", "2", ".", "3">>

\* every text of at most MaxSrcLen characters, and the malformed numeral
LexSources == SeqsUpTo(LexAlphabet, MaxSrcLen) \cup {Malformed}

\* no caller of Environment alone, no process with several Compiler objects
NoScopes == scopes = <<>> /\ scope = 0 /\ looked = <<>>
NoProcess == instances = <<>> /\ inputs = <<>> /\ progress = <<>> /\ ir_Module = "class"

NoParser == [current_token |-> NoneTok, peek_token |-> NoneTok, errors |-> <<>>]
NoCompiler == [fault |-> "None"]

EofCalls == Cardinality({i \in 1..Len(tokens) : tokens[i].type = "EOF"})

LexInit ==
    /\ source \in LexSources
    /\ lexer = LexerInit
    /\ tokens = <<>>
    /\ parser = NoParser
    /\ program = <<>>
    /\ compiler = NoCompiler
    /\ pc = "lex"
    /\ iter = 0
    /\ compiled = 0
    /\ NoScopes
    /\ NoProcess

\* the caller keeps the token that next_token yielded
KeepToken(r) ==
    /\ lexer' = r.lexer
    /\ tokens' = Append(tokens, r.tok)

\* one call of Lexer.next_token
LexNextToken ==
    /\ pc = "lex"
    /\ EofCalls <= MaxEofCalls
    /\ KeepToken(next_token(lexer))
    /\ UNCHANGED <<source, parser, program, compiler, pc, iter, compiled>>
    /\ UNCHANGED <<scopeVars, processVars>>

LexNext == LexNextToken

SpecLex == LexInit /\ [][LexNext]_vars

-----------------------------------------------------------------------------
(* Source texts given to the driver *)

RECURSIVE Join(_)
\* the lexemes of a sequence, each followed by one space
Join(lexemes) ==
    IF lexemes = <<>> THEN <<>>
    ELSE lexemes[1] \o <<" ">> \o Join(Tail(lexemes))

RECURSIVE Concat(_)
\* the lines of a sequence one after the other
Concat(lines) ==
    IF lines = <<>> THEN <<>> ELSE lines[1] \o Concat(Tail(lines))

NL == <<"\n">>

Lexemes ==
    {<<"1">>, <<"@">>, <<"+">>, <<"x">>, <<"=">>, NL, <<"(">>, <<")">>,
     <<"1", ".", "2", ".", "3">>, KW_return, KW_def, <<":">>}

\* every text of at most MaxToks lexemes
TokenSources == {Join(ls) : ls \in SeqsUpTo(Lexemes, MaxToks)}

OperatorLexemes == {<<"+">>, <<"-">>, <<"*">>, <<"/">>, <<"%">>, <<"*", "*">>}

\* where an expression can stand: a bare expression statement, the right-hand
\* side of an assignment or of a declaration, a parenthesised group
ExprContexts ==
    {[pre |-> <<>>, post |-> NL],
     [pre |-> <<"x", " ", "=", " ">>, post |-> NL],
     [pre |-> <<"x", ":", " ">> \o TY_int \o <<" ", "=", " ">>, post |-> NL],
     [pre |-> <<"(">>, post |-> <<")">> \o NL]}

FirstOperands == {<<"2">>, <<"a">>}
MiddleOperands == {<<"3">>, <<"1", ".", "5">>}
LastOperands == {<<"4">>, <<"f", "(", ")">>}

\* o1 op1 o3 and o1 op1 o2 op2 o3 in each context
ExprSources ==
    {c.pre \o Join(<<o1, op1, o3>>) \o c.post :
        c \in ExprContexts, o1 \in FirstOperands, op1 \in OperatorLexemes,
        o3 \in LastOperands}
    \cup
    {c.pre \o Join(<<o1, op1, o2, op2, o3>>) \o c.post :
        c \in ExprContexts, o1 \in FirstOperands, op1 \in OperatorLexemes,
        o2 \in MiddleOperands, op2 \in OperatorLexemes, o3 \in LastOperands}


\* the malformed numeral 1.2.3 in each statement position
NumeralSources ==
    {Malformed \o NL,
     <<"x", ":", " ">> \o TY_int \o <<" ", "=", " ">> \o Malformed \o NL,
     <<"x", " ", "=", " ">> \o Malformed \o NL,
     KW_return \o <<" ">> \o Malformed \o NL}


\* lines that declare, assign, nest a function and return:
\* x: int = 5 | y: int = x + 2 | x = 7 | def g() -> float: | x: float = 2.5 | return y | return 1 + 2
DeclarationLines ==
    {<<"x", ":", " ", "i", "n", "t", " ", "=", " ", "5", "\n">>,
     <<"y", ":", " ", "i", "n", "t", " ", "=", " ", "x", " ", "+", " ", "2", "\n">>,
     <<"x", " ", "=", " ", "7", "\n">>,
     <<"d", "e", "f", " ", "g", "(", ")", " ", "-", ">", " ", "f", "l", "o", "a", "t", ":", "\n">>,
     <<"x", ":", " ", "f", "l", "o", "a", "t", " ", "=", " ", "2", ".", "5", "\n">>,
     <<"r", "e", "t", "u", "r", "n", " ", "y", "\n">>,
     <<"r", "e", "t", "u", "r", "n", " ", "1", " ", "+", " ", "2", "\n">>}

\* lines with an unbound name, a mixed or an unimplemented operation:
\* return h() | 1 + 2.0 | 2 ** 3 | 2.5 % 1.5 | z = 1 | y: int = z + 1 | return main()
FaultyLines ==
    {<<"r", "e", "t", "u", "r", "n", " ", "h", "(", ")", "\n">>,
     <<"1", " ", "+", " ", "2", ".", "0", "\n">>,
     <<"2", " ", "*", "*", " ", "3", "\n">>,
     <<"2", ".", "5", " ", "%", " ", "1", ".", "5", "\n">>,
     <<"z", " ", "=", " ", "1", "\n">>,
     <<"y", ":", " ", "i", "n", "t", " ", "=", " ", "z", " ", "+", " ", "1", "\n">>,
     <<"r", "e", "t", "u", "r", "n", " ", "m", "a", "i", "n", "(", ")", "\n">>}

\* def main() -> int:
MainHeader == <<"d", "e", "f", " ", "m", "a", "i", "n", "(", ")", " ", "-", ">", " ", "i", "n", "t", ":", "\n">>

\* programs of at most MaxLines lines of one family, at module level or as
\* the body of main
ProgramSources ==
    {h \o Concat(ls) : h \in {<<>>, MainHeader},
                       ls \in SeqsUpTo(DeclarationLines, MaxLines)
                              \cup SeqsUpTo(FaultyLines, MaxLines)}

\* def add() -> int: return 1 + 2
AddSource ==
    <<"d", "e", "f", " ", "a", "d", "d", "(", ")", " ", "-", ">", " ", "i", "n", "t", ":", " ",
      "r", "e", "t", "u", "r", "n", " ", "1", " ", "+", " ", "2", "\n">>

\* def main() -> int: z = 1, return 1 + 2
UndeclaredSource ==
    MainHeader
    \o <<"z", " ", "=", " ", "1", "\n">>
    \o <<"r", "e", "t", "u", "r", "n", " ", "1", " ", "+", " ", "2", "\n">>

\* def f(a) -> int: return 1
ParameterSource ==
    <<"d", "e", "f", " ", "f", "(", "a", ")", " ", "-", ">", " ", "i", "n", "t", ":", "\n">>
    \o <<"r", "e", "t", "u", "r", "n", " ", "1", "\n">>

\* the operands of one kind, in the order they are written
IntOperands == <<<<"2">>, <<"3">>, <<"4">>, <<"5">>>>
FloatOperands == <<<<"1", ".", "5">>, <<"2", ".", "5">>, <<"3", ".", "5">>, <<"4", ".", "5">>>>

\* a op b, and a op1 b op3 c op2 d with op1 and op2 binding tighter than op3,
\* over operands of one kind
ArithmeticSources ==
    {Join(<<o[1], op, o[2]>>) \o NL :
        o \in {IntOperands, FloatOperands}, op \in OperatorLexemes}
    \cup
    {Join(<<o[1], op1, o[2], op3, o[3], op2, o[4]>>) \o NL :
        o \in {IntOperands, FloatOperands},
        op1 \in {<<"*">>, <<"/">>}, op2 \in {<<"*">>, <<"/">>},
        op3 \in {<<"+">>, <<"-">>}}

\* x: int = 5
DeclarationSource == <<"x", ":", " ">> \o TY_int \o <<" ", "=", " ", "5", " ">>

\* lexemes that do not continue an expression
TrailingLexemes == {<<"@">>, <<"7">>, <<")">>, <<"y">>, KW_def, Malformed}

\* the declaration followed by at most two such lexemes, the line ended by a
\* NEWLINE or by the end of the input
TrailingSources ==
    {DeclarationSource \o Join(ls) \o end :
        ls \in SeqsUpTo(TrailingLexemes, 2), end \in {NL, <<>>}}

\* the programs of the scenarios
ScenarioSources ==
    {AddSource, UndeclaredSource, ParameterSource} \cup ArithmeticSources
    \cup TrailingSources

Sources ==
    TokenSources \cup ExprSources \cup NumeralSources \cup ProgramSources
    \cup ScenarioSources

-----------------------------------------------------------------------------
(* pythonf.py: compile_and_run, from Lexer(source=code) on *)

TheParser == [lexer |-> lexer, current_token |-> parser.current_token,
              peek_token |-> parser.peek_token, errors |-> parser.errors]

ParserFields(p) == [current_token |-> p.current_token, peek_token |-> p.peek_token,
                    errors |-> p.errors]

\* l = Lexer(source=code)
Init ==
    /\ source \in Sources
    /\ lexer = LexerInit
    /\ tokens = <<>>
    /\ parser = NoParser
    /\ program = <<>>
    /\ compiler = NoCompiler
    /\ pc = "new_parser"
    /\ iter = 0
    /\ compiled = 0
    /\ NoScopes
    /\ NoProcess

\* the parser object p becomes the state of the lexer and the parser
SetParser(p) ==
    /\ lexer' = p.lexer
    /\ parser' = ParserFields(p)

\* p = Parser(l), and parse_program's program = Program()
NewParser ==
    /\ pc = "new_parser"
    /\ SetParser(ParserInit(lexer))
    /\ pc' = "parse_program"
    /\ UNCHANGED <<source, tokens, program, compiler, iter, compiled>>
    /\ UNCHANGED <<scopeVars, processVars>>

\* if stmt is not None: program.statements.append(stmt), and the skipping of
\* NEWLINE tokens after the statement
AppendStatement(r) ==
    /\ program' = IF r.node.type # "None" THEN Append(program, r.node) ELSE program
    /\ SetParser(skip_newlines(r.p))

\* the body of parse_program's loop after its skipping of NEWLINE tokens
ParseOneStatement(p) ==
    /\ ~current_token_is(p, "EOF")
    /\ AppendStatement(parse_statement(p))

\* one iteration of parse_program's while True loop that parses a statement
ParseProgramIter ==
    /\ pc = "parse_program"
    /\ iter < MaxIter
    /\ ParseOneStatement(skip_newlines(TheParser))
    /\ iter' = iter + 1
    /\ UNCHANGED <<source, tokens, compiler, pc, compiled>>
    /\ UNCHANGED <<scopeVars, processVars>>

\* if self.__current_token_is(EOF): break
BreakAtEof(p) ==
    /\ current_token_is(p, "EOF")
    /\ SetParser(p)

\* the iteration of parse_program's loop that reaches EOF and returns
ParseProgramReturn ==
    /\ pc = "parse_program"
    /\ BreakAtEof(skip_newlines(TheParser))
    /\ pc' = "parsed"
    /\ UNCHANGED <<source, tokens, program, compiler, iter, compiled>>
    /\ UNCHANGED <<scopeVars, processVars>>

\* len(p.errors) > 0: the errors are printed and the process exits with 1
ReportParseErrors ==
    /\ pc = "parsed"
    /\ Len(parser.errors) > 0
    /\ pc' = "exit_1"
    /\ UNCHANGED <<source, lexer, tokens, parser, program, compiler, iter, compiled>>
    /\ UNCHANGED <<scopeVars, processVars>>

\* NewCompiler without the test of p.errors before it
NewCompiler_unchecked ==
    /\ pc = "parsed"
    /\ compiler' = CompilerInit
    /\ pc' = "compile"
    /\ UNCHANGED <<source, lexer, tokens, parser, program, iter, compiled>>
    /\ UNCHANGED <<scopeVars, processVars>>

\* c = Compiler()
NewCompiler ==
    /\ pc = "parsed"
    /\ ~(Len(parser.errors) > 0)
    /\ compiler' = CompilerInit
    /\ pc' = "compile"
    /\ UNCHANGED <<source, lexer, tokens, parser, program, iter, compiled>>
    /\ UNCHANGED <<scopeVars, processVars>>

\* the compiler after one statement: an exception leaves compile_and_run and
\* ends the process
SetCompiler(c) ==
    /\ compiler' = c
    /\ pc' = IF c.fault # "None" THEN "crashed" ELSE "compile"

\* c.compile(program): one iteration of __visit_program's loop
CompileStatement ==
    /\ pc = "compile"
    /\ compiled < Len(program)
    /\ SetCompiler(compile(compiler, program[compiled + 1]))
    /\ compiled' = compiled + 1
    /\ UNCHANGED <<source, lexer, tokens, parser, program, iter>>
    /\ UNCHANGED <<scopeVars, processVars>>

\* c.compile(program) returns, and module = ir.Module = c.module binds the
\* name Module of llvmlite.ir to the module object
CompileReturn ==
    /\ pc = "compile"
    /\ compiled = Len(program)
    /\ pc' = "compiled"
    /\ UNCHANGED <<source, lexer, tokens, parser, program, compiler, iter, compiled>>
    /\ ir_Module' = "instance"
    /\ UNCHANGED <<scopeVars, instances, inputs, progress>>

\* llvm.parse_assembly or verify raises: the error is printed, exit with 1
LlvmRejects ==
    /\ pc = "compiled"
    /\ pc' = "exit_1"
    /\ UNCHANGED <<source, lexer, tokens, parser, program, compiler, iter, compiled>>
    /\ UNCHANGED <<scopeVars, processVars>>

\* the module is handed to the execution engine and main is called
RunEntry ==
    /\ pc = "compiled"
    /\ pc' = "executed"
    /\ UNCHANGED <<source, lexer, tokens, parser, program, compiler, iter, compiled>>
    /\ UNCHANGED <<scopeVars, processVars>>

Next ==
    \/ NewParser
    \/ ParseProgramIter
    \/ ParseProgramReturn
    \/ ReportParseErrors
    \/ NewCompiler
    \/ CompileStatement
    \/ CompileReturn
    \/ LlvmRejects
    \/ RunEntry

Spec == Init /\ [][Next]_vars

-----------------------------------------------------------------------------
(* Environment.py used alone: a caller that opens scopes as the compiler     *)
(* does, defines and looks up names                                          *)

ScopeNames == {<<"x">>, <<"y">>}

\* the (value, type) pairs the caller defines
ScopeBindings == {<<[kind |-> "inst", id |-> 1], IntType>>,
                  <<[kind |-> "inst", id |-> 2], FloatType>>}

\* env = Environment()
EnvInit ==
    /\ source = <<>>
    /\ lexer = LexerInit
    /\ tokens = <<>>
    /\ parser = NoParser
    /\ program = <<>>
    /\ compiler = NoCompiler
    /\ pc = "scopes"
    /\ iter = 0
    /\ compiled = 0
    /\ scopes = <<Environment(0)>>
    /\ scope = 1
    /\ looked = <<>>
    /\ NoProcess

\* env = Environment(parent=env)
EnvNew ==
    /\ pc = "scopes"
    /\ Len(scopes) < MaxScopes
    /\ scopes' = Append(scopes, Environment(scope))
    /\ scope' = Len(scopes) + 1
    /\ UNCHANGED <<driverVars, looked, processVars>>

\* env = previous_env: the Environment that is left is referred to by nothing
\* any more
EnvLeave ==
    /\ pc = "scopes"
    /\ scope = Len(scopes)
    /\ scopes[scope].parent # 0
    /\ scope' = scopes[scope].parent
    /\ scopes' = SubSeq(scopes, 1, Len(scopes) - 1)
    /\ UNCHANGED <<driverVars, looked, processVars>>

\* env.define(name, value, type)
EnvDefine(name, binding) ==
    /\ pc = "scopes"
    /\ scopes' = define(scopes, scope, name, binding[1], binding[2])
    /\ UNCHANGED <<driverVars, scope, looked, processVars>>

\* env.lookup(name)
EnvLookup(name) ==
    /\ pc = "scopes"
    /\ looked' = [name |-> name, result |-> lookup(scopes, scope, name)]
    /\ UNCHANGED <<driverVars, scopes, scope, processVars>>

EnvNext ==
    \/ EnvNew
    \/ EnvLeave
    \/ \E name \in ScopeNames, binding \in ScopeBindings : EnvDefine(name, binding)
    \/ \E name \in ScopeNames : EnvLookup(name)

SpecEnv == EnvInit /\ [][EnvNext]_vars

-----------------------------------------------------------------------------
(* Compiler.py used twice in one process: two Compiler objects, each given a *)
(* Program of its own, their compile calls interleaved statement by          *)
(* statement                                                                 *)

\* an annotation that type_map has no entry for
TY_str == <<"s", "t", "r">>

\* def f() -> int: x: int = 5, return x | z = 1 | x: int = 1 |
\* def main() -> int: return f() | x: str = 2
ProcessStatements ==
    {FunctionStatement(<<>>,
        BlockStatement(<<VariableStatement(IdentifierLiteral(<<"x">>), IntegerLiteral(5), TY_int),
                         ReturnStatement(IdentifierLiteral(<<"x">>))>>),
        IdentifierLiteral(<<"f">>), TY_int),
     AssignStatement(IdentifierLiteral(<<"z">>), IntegerLiteral(1)),
     VariableStatement(IdentifierLiteral(<<"x">>), IntegerLiteral(1), TY_int),
     FunctionStatement(<<>>,
        BlockStatement(<<ReturnStatement(CallExpression(IdentifierLiteral(<<"f">>), <<>>))>>),
        IdentifierLiteral(<<"m", "a", "i", "n">>), TY_int),
     VariableStatement(IdentifierLiteral(<<"x">>), IntegerLiteral(2), TY_str)}

ProcessPrograms == SeqsUpTo(ProcessStatements, MaxStatements)

\* Compiler() in a process where the name Module of llvmlite.ir has the given
\* binding: ir.Module('main') calls what the name is bound to, and a module
\* object cannot be called
Constructed(binding) ==
    IF binding = "class" THEN CompilerInit ELSE [fault |-> "TypeError"]

ProcInit ==
    /\ source = <<>>
    /\ lexer = LexerInit
    /\ tokens = <<>>
    /\ parser = NoParser
    /\ program = <<>>
    /\ compiler = NoCompiler
    /\ pc = "process"
    /\ iter = 0
    /\ compiled = 0
    /\ NoScopes
    /\ instances = <<NoCompiler, NoCompiler>>
    /\ inputs \in {<<p, q>> : p \in ProcessPrograms, q \in ProcessPrograms}
    /\ progress = <<0, 0>>
    /\ ir_Module = "class"

\* c = Compiler() for the i-th compilation
ProcNew(i) ==
    /\ pc = "process"
    /\ instances[i] = NoCompiler
    /\ instances' = [instances EXCEPT ![i] = Constructed(ir_Module)]
    /\ UNCHANGED <<driverVars, scopeVars, inputs, progress, ir_Module>>

\* the i-th Compiler compiles the next statement of its Program; an exception
\* ends that compilation
ProcCompile(i) ==
    /\ pc = "process"
    /\ instances[i] # NoCompiler
    /\ instances[i].fault = "None"
    /\ progress[i] < Len(inputs[i])
    /\ instances' = [instances EXCEPT ![i] = compile(@, inputs[i][progress[i] + 1])]
    /\ progress' = [progress EXCEPT ![i] = @ + 1]
    /\ UNCHANGED <<driverVars, scopeVars, inputs, ir_Module>>

\* the i-th compilation is one made by compile_and_run: after c.compile
\* returned, module = ir.Module = c.module
ProcHandOver(i) ==
    /\ pc = "process"
    /\ instances[i] # NoCompiler
    /\ instances[i].fault = "None"
    /\ progress[i] = Len(inputs[i])
    /\ ir_Module' = "instance"
    /\ UNCHANGED <<driverVars, scopeVars, instances, inputs, progress>>

ProcNext ==
    \/ \E i \in 1..2 : ProcNew(i)
    \/ \E i \in 1..2 : ProcCompile(i)
    \/ \E i \in 1..2 : ProcHandOver(i)

SpecProcess == ProcInit /\ [][ProcNext]_vars

-----------------------------------------------------------------------------
(* Claims about the lexer, checked under SpecLex *)

\* the token returned by call i of next_token is EOF
IsEof(i) == tokens[i].type = "EOF"

\* C2, state part: EOF is returned by one of the first Len(source) + 1 calls,
\* and once EOF was returned every later call returned EOF
C2_EofReachedAndSticky ==
    /\ Len(tokens) > Len(source) => \E i \in 1..(Len(source) + 1) : IsEof(i)
    /\ \A i, j \in 1..Len(tokens) : (i < j /\ IsEof(i)) => IsEof(j)

\* C2, step part: a call made before end of input moves the position forward
\* by at least one character, and no call moves it backwards
C2_CallConsumes ==
    /\ lexer'.position >= lexer.position
    /\ lexer.current_char # None => lexer'.position > lexer.position

\* C2: repeated calls of Lexer.next_token produce a finite token sequence:
\* every call before end of input consumes at least one character, EOF is
\* returned after at most Len(source) + 1 calls, and after EOF only EOF follows
C2_LexerFinite == [](C2_EofReachedAndSticky) /\ [][C2_CallConsumes]_vars

\* C2 witness: a text starting with a malformed numeral was lexed to its end
\* and next_token was called again after EOF
C2_Witness ==
    /\ Len(tokens) >= 3
    /\ tokens[1].type = "ILLEGAL"
    /\ Len(tokens[1].literal) > 1
    /\ EofCalls >= 2

OpTypes == {"POWER", "ASTERISK", "ARROW", "MINUS"}

RECURSIVE RefOps(_)
\* the operator tokens of the text from (1-based) index i on, matching the
\* pairs ** and -> greedily from left to right
RefOps(i) ==
    IF i > Len(source) THEN <<>>
    ELSE LET nxt == IF i + 1 <= Len(source) THEN source[i + 1] ELSE None
         IN  IF source[i] = "*" /\ nxt = "*" THEN <<"POWER">> \o RefOps(i + 2)
             ELSE IF source[i] = "*" THEN <<"ASTERISK">> \o RefOps(i + 1)
             ELSE IF source[i] = "-" /\ nxt = ">" THEN <<"ARROW">> \o RefOps(i + 2)
             ELSE IF source[i] = "-" THEN <<"MINUS">> \o RefOps(i + 1)
             ELSE RefOps(i + 1)

RECURSIVE OpTokens(_)
\* the types of the operator tokens among the first n tokens returned
OpTokens(n) ==
    IF n = 0 THEN <<>>
    ELSE IF tokens[n].type \in OpTypes THEN Append(OpTokens(n - 1), tokens[n].type)
    ELSE OpTokens(n - 1)

\* C3: ** is lexed as exactly one POWER token and -> as exactly one ARROW
\* token; a * or - without its partner is ASTERISK or MINUS, matching left to
\* right: the operator tokens returned are a prefix of the greedy matching of
\* the text, and all of it once EOF was returned; a POWER or ARROW token sits
\* on its two characters
C3_TwoCharOperators ==
    LET ops == OpTokens(Len(tokens))
        ref == RefOps(1)
    IN  /\ Len(ops) <= Len(ref)
        /\ \A i \in 1..Len(ops) : ops[i] = ref[i]
        /\ EofCalls > 0 => ops = ref
        /\ \A i \in 1..Len(tokens) :
              /\ tokens[i].type = "POWER" =>
                    Slice(source, tokens[i].position - 1, tokens[i].position + 1) = <<"*", "*">>
              /\ tokens[i].type = "ARROW" =>
                    Slice(source, tokens[i].position - 1, tokens[i].position + 1) = <<"-", ">">>

\* C3 witness: the text *** was lexed to POWER, ASTERISK, EOF
C3_Witness ==
    /\ source = <<"*", "*", "*">>
    /\ Len(tokens) = 3
    /\ tokens[1].type = "POWER"
    /\ tokens[2].type = "ASTERISK"
    /\ tokens[3].type = "EOF"

\* the text is one numeral span: a digit followed by digits and points
IsNumeralText(s) ==
    /\ s # <<>>
    /\ is_digit(s[1])
    /\ \A i \in 1..Len(s) : is_digit(s[i]) \/ s[i] = "."

Points(s) == Cardinality({i \in 1..Len(s) : s[i] = "."})

\* C23: a source that is one run of digits and points starting with a digit
\* lexes to a single token before EOF: INT without a point, FLOAT with one
\* point, and with two or more points ILLEGAL with the whole run as its
\* literal
C23_OneTokenPerNumeral ==
    (pc = "lex" /\ IsNumeralText(source)) =>
        /\ Len(tokens) >= 1 =>
              /\ tokens[1].type = IF Points(source) = 0 THEN "INT"
                                  ELSE IF Points(source) = 1 THEN "FLOAT"
                                  ELSE "ILLEGAL"
              /\ Points(source) > 1 => tokens[1].literal = source
        /\ Len(tokens) >= 2 => IsEof(2)

-----------------------------------------------------------------------------
(* Claims about the parser, checked under Spec *)

\* C1: every iteration of parse_program's statement loop consumes at least
\* one token (each consumed token moves the lexer forward), so that the loop
\* reaches EOF and parse_program returns
C1_IterationConsumes ==
    [][(pc = "parse_program" /\ pc' = "parse_program") =>
            lexer'.position > lexer.position]_vars

\* the classes of the claim, lowest first: sum, product, exponent
OpClass(op) ==
    CASE op \in {<<"+">>, <<"-">>} -> 1
      [] op \in {<<"*">>, <<"/">>, <<"%">>} -> 2
      [] op = <<"*", "*">> -> 3

\* the node an operand lexeme stands for
OperandNode(o) ==
    CASE o = <<"2">> -> IntegerLiteral(2)
      [] o = <<"3">> -> IntegerLiteral(3)
      [] o = <<"4">> -> IntegerLiteral(4)
      [] o = <<"1", ".", "5">> -> FloatLiteral([num |-> 15, exp |-> 1])
      [] o = <<"a">> -> IdentifierLiteral(<<"a">>)
      [] o = <<"f", "(", ")">> -> CallExpression(IdentifierLiteral(<<"f">>), <<>>)

\* the statement a context wraps around the expression node e
InContext(c, e) ==
    IF c.pre = <<>> \/ c.pre = <<"(">> THEN ExpressionStatement(e)
    ELSE IF c.pre = <<"x", " ", "=", " ">> THEN AssignStatement(IdentifierLiteral(<<"x">>), e)
    ELSE VariableStatement(IdentifierLiteral(<<"x">>), e, TY_int)

\* a bare statement that starts with an identifier is dispatched as a
\* declaration and never reaches __parse_expression
IsExpressionPosition(c, o1) == ~(c.pre = <<>> /\ o1 = <<"a">>)

\* C4: of two infix operators of different precedence classes the one of the
\* higher class becomes the deeper node, and a call is deeper than any infix
\* operator: o1 op1 o2 op2 o3 parses to Infix(o1, op1, Infix(o2, op2, o3))
\* when op2's class is the higher one and to Infix(Infix(o1, op1, o2), op2, o3)
\* when op1's is, with a call operand kept whole as one Call node
C4_PrecedenceShapesTree ==
    (pc = "parsed" /\ source \in ExprSources) =>
        /\ \A c \in ExprContexts, o1 \in FirstOperands, op1 \in OperatorLexemes,
              o3 \in LastOperands :
              (/\ source = c.pre \o Join(<<o1, op1, o3>>) \o c.post
               /\ IsExpressionPosition(c, o1))
              => /\ program = <<InContext(c,
                        InfixExpression(OperandNode(o1), op1, OperandNode(o3)))>>
                 /\ parser.errors = <<>>
        /\ \A c \in ExprContexts, o1 \in FirstOperands, op1 \in OperatorLexemes,
              o2 \in MiddleOperands, op2 \in OperatorLexemes, o3 \in LastOperands :
              (/\ source = c.pre \o Join(<<o1, op1, o2, op2, o3>>) \o c.post
               /\ IsExpressionPosition(c, o1)
               /\ OpClass(op1) # OpClass(op2))
              => /\ program = <<InContext(c,
                        IF OpClass(op2) > OpClass(op1)
                        THEN InfixExpression(OperandNode(o1), op1,
                                InfixExpression(OperandNode(o2), op2, OperandNode(o3)))
                        ELSE InfixExpression(
                                InfixExpression(OperandNode(o1), op1, OperandNode(o2)),
                                op2, OperandNode(o3)))>>
                 /\ parser.errors = <<>>

\* C4 witness: 2 + 3 * 4 was parsed to Infix(2, +, Infix(3, *, 4))
C4_Witness ==
    /\ source = <<"2", " ", "+", " ", "3", " ", "*", " ", "4", " ", "\n">>
    /\ pc = "parsed"
    /\ program = <<ExpressionStatement(
            InfixExpression(IntegerLiteral(2), <<"+">>,
                InfixExpression(IntegerLiteral(3), <<"*">>, IntegerLiteral(4))))>>

\* 1.2.3 occurs in the text
HasMalformedNumeral ==
    \E i \in 1..Len(source) : Slice(source, i - 1, i - 1 + Len(Malformed)) = Malformed

\* C6: with the malformed numeral 1.2.3 in the text, the parser finishes with
\* at least one diagnostic: each iteration of parse_program's loop consumes a
\* token, and parse_program returns with a non-empty error list
C6_MalformedNumeralReported ==
    [][(HasMalformedNumeral /\ pc = "parse_program") =>
            \/ pc' = "parsed" /\ parser'.errors # <<>>
            \/ pc' = "parse_program" /\ lexer'.position > lexer.position]_vars

-----------------------------------------------------------------------------
(* Claims about the compiler, checked under Spec *)

\* a Compiler was constructed
HasCompiler == "blocks" \in DOMAIN compiler

\* the instructions of block b of the compiler c; block 0 is the builder
\* without a block
InstrsOf(c, b) == IF b = 0 THEN c.nowhere ELSE c.blocks[b].instrs

Blocks(c) == 0..Len(c.blocks)

\* the value an instruction yields, as an operand
ValueOf(i) == [kind |-> "inst", id |-> i.id]

RECURSIVE Subnodes(_)
RECURSIVE SubnodesOfAll(_)
\* the nodes of the trees of a sequence of nodes, in preorder
SubnodesOfAll(nodes) ==
    IF nodes = <<>> THEN <<>> ELSE Subnodes(nodes[1]) \o SubnodesOfAll(Tail(nodes))

\* the nodes of the tree of n, in preorder
Subnodes(n) ==
    <<n>> \o
    CASE n.type = "ExpressionStatement" -> Subnodes(n.expr)
      [] n.type = "VariableStatement" -> Subnodes(n.value)
      [] n.type = "FunctionStatement" -> Subnodes(n.body)
      [] n.type = "BlockStatement" -> SubnodesOfAll(n.statements)
      [] n.type = "ReturnStatement" -> Subnodes(n.return_value)
      [] n.type = "AssignStatement" -> Subnodes(n.right_value)
      [] n.type = "InfixExpression" -> Subnodes(n.left_node) \o Subnodes(n.right_node)
      [] n.type = "CallExpression" -> SubnodesOfAll(n.arguments)
      [] OTHER -> <<>>

\* the step compiles the next statement of the program, which has a node
\* satisfying Is
CompilesNodeThat(Is(_)) ==
    /\ pc = "compile"
    /\ compiled' = compiled + 1
    /\ \E k \in DOMAIN Subnodes(program[compiled + 1]) :
          Is(Subnodes(program[compiled + 1])[k])

\* more diagnostics after the step than before
DiagnosticAppended == Len(compiler'.errors) > Len(compiler.errors)

\* C5: a declaration compiled in a function body gets storage of its own in
\* that body, and leaves the storage of the enclosing scopes alone: every
\* store made by a declaration goes to a slot allocated in the block the
\* declaration is compiled into
C5_ShadowingOwnStorage ==
    HasCompiler =>
        \A b \in Blocks(compiler) : \A k \in DOMAIN InstrsOf(compiler, b) :
            (/\ InstrsOf(compiler, b)[k].op = "store"
             /\ InstrsOf(compiler, b)[k].site \in {89, 97})
            => \E j \in 1..k :
                  /\ InstrsOf(compiler, b)[j].op = "alloca"
                  /\ InstrsOf(compiler, b)[k].operands[2] = ValueOf(InstrsOf(compiler, b)[j])

\* the call n names a callee that no scope binds, now or later
IsUnboundCall(n) ==
    /\ n.type = "CallExpression"
    /\ n.function.type = "IdentifierLiteral"
    /\ \A e \in DOMAIN compiler'.envs : n.function.value \notin DOMAIN compiler'.envs[e].records

\* the call instructions of the compiler c
Calls(c) ==
    {<<b, k>> \in Blocks(c) \X (1..c.ninstr) :
        k \in DOMAIN InstrsOf(c, b) /\ InstrsOf(c, b)[k].op = "call"}

\* C7: compiling a call of a name bound in no scope appends a diagnostic,
\* emits no call instruction and raises no exception
C7_UnboundCalleeReported ==
    [][CompilesNodeThat(IsUnboundCall) =>
            /\ compiler'.fault = "None"
            /\ DiagnosticAppended
            /\ Cardinality(Calls(compiler')) = Cardinality(Calls(compiler))]_vars

\* int for an integer literal, float for a float literal
Kind(n) ==
    IF n.type = "IntegerLiteral" THEN "int"
    ELSE IF n.type = "FloatLiteral" THEN "float"
    ELSE "other"

\* an infix expression of one int and one float literal
IsMixedInfix(n) ==
    /\ n.type = "InfixExpression"
    /\ {Kind(n.left_node), Kind(n.right_node)} = {"int", "float"}

\* C8: compiling an infix expression of one int and one float operand appends
\* a diagnostic
C8_MixedKindsReported ==
    [][CompilesNodeThat(IsMixedInfix) => DiagnosticAppended]_vars

\* an infix expression of two literals of one kind whose operator has no
\* instruction: ** on both kinds, % on floats
IsUnimplementedInfix(n) ==
    /\ n.type = "InfixExpression"
    /\ Kind(n.left_node) = Kind(n.right_node)
    /\ \/ Kind(n.left_node) \in {"int", "float"} /\ n.operator = <<"*", "*">>
       \/ Kind(n.left_node) = "float" /\ n.operator = <<"%">>

ArithmeticOps == {"add", "sub", "mul", "sdiv", "srem", "fadd", "fsub", "fmul", "fdiv"}

\* the arithmetic instructions of the compiler c
Arithmetic(c) ==
    {<<b, k>> \in Blocks(c) \X (1..c.ninstr) :
        k \in DOMAIN InstrsOf(c, b) /\ InstrsOf(c, b)[k].op \in ArithmeticOps}

\* C9: compiling an infix expression with an unimplemented operator emits an
\* instruction that produces its result or appends a diagnostic
C9_UnimplementedNotDropped ==
    [][CompilesNodeThat(IsUnimplementedInfix) =>
            \/ Cardinality(Arithmetic(compiler')) > Cardinality(Arithmetic(compiler))
            \/ DiagnosticAppended]_vars

\* the positions of the alloca instructions of block b
Allocas(c, b) == {k \in DOMAIN InstrsOf(c, b) : InstrsOf(c, b)[k].op = "alloca"}

\* a number of the machine: num / 10^exp, an integer having exp = 0
Num(n) == [def |-> TRUE, num |-> n, exp |-> 0]
Undefined == [def |-> FALSE, num |-> 0, exp |-> 0]

\* the value of an operand in the machine state m
Val(v, m) ==
    IF v.kind = "const"
    THEN IF v.type = IntType THEN Num(v.value)
         ELSE [def |-> TRUE, num |-> v.value.num, exp |-> v.value.exp]
    ELSE IF v.kind = "inst" THEN m.regs[v.id]
    ELSE Undefined

\* the quotient of sdiv, rounded towards zero
Quotient(a, b) ==
    IF (a >= 0) = (b >= 0)
    THEN (IF a >= 0 THEN a ELSE -a) \div (IF b >= 0 THEN b ELSE -b)
    ELSE -((IF a >= 0 THEN a ELSE -a) \div (IF b >= 0 THEN b ELSE -b))

\* the result of an integer instruction on two integers
Arith(op, a, b) ==
    IF ~(a.def /\ b.def /\ a.exp = 0 /\ b.exp = 0) THEN Undefined
    ELSE CASE op = "add" -> Num(a.num + b.num)
           [] op = "sub" -> Num(a.num - b.num)
           [] op = "mul" -> Num(a.num * b.num)
           [] op = "sdiv" -> IF b.num = 0 THEN Undefined ELSE Num(Quotient(a.num, b.num))
           [] op = "srem" -> IF b.num = 0 THEN Undefined
                             ELSE Num(a.num - b.num * Quotient(a.num, b.num))
           [] OTHER -> Undefined

\* the machine after one instruction: regs holds what each instruction
\* yielded, mem what each slot holds
Step(i, m) ==
    CASE i.op = "store" /\ i.operands[2].kind = "inst" ->
            [m EXCEPT !.mem[i.operands[2].id] = Val(i.operands[1], m)]
      [] i.op = "load" /\ i.operands[1].kind = "inst" ->
            [m EXCEPT !.regs[i.id] = m.mem[i.operands[1].id]]
      [] i.op \in ArithmeticOps ->
            [m EXCEPT !.regs[i.id] = Arith(i.op, Val(i.operands[1], m), Val(i.operands[2], m))]
      [] OTHER -> m

RECURSIVE Exec(_, _, _)
\* the machine after the instructions from position k on
Exec(instrs, k, m) ==
    IF k > Len(instrs) THEN m ELSE Exec(instrs, k + 1, Step(instrs[k], m))

\* what the slots hold after block b of the compiler c was executed
MemoryAfter(c, b) ==
    Exec(InstrsOf(c, b), 1, [regs |-> [i \in 1..c.ninstr |-> Undefined],
                             mem  |-> [i \in 1..c.ninstr |-> Undefined]]).mem

\* the names that the statements of a function body declare
DeclaredIn(body) ==
    {body.statements[k].name.value :
        k \in {j \in DOMAIN body.statements : body.statements[j].type = "VariableStatement"}}

\* def main() -> int: x: int = 5, y: int = x + 2
TwoSlotsSource ==
    MainHeader
    \o <<"x", ":", " ", "i", "n", "t", " ", "=", " ", "5", "\n">>
    \o <<"y", ":", " ", "i", "n", "t", " ", "=", " ", "x", " ", "+", " ", "2", "\n">>

\* the slot of block b that was allocated for name
SlotOf(c, b, name) ==
    InstrsOf(c, b)[CHOOSE k \in Allocas(c, b) : InstrsOf(c, b)[k].name = name].id

\* C10: within one scope a declaration of an unbound name allocates one slot,
\* stores the value into it and binds the name to it, and a declaration of a
\* bound name allocates nothing and stores into the existing slot: every
\* alloca is followed by the store of the declaration into it and some scope
\* binds its name to it; no block has two slots of one name; a store of a
\* redeclaration goes to a slot allocated before; the block of a function at
\* module level has one slot for each name its body declares; and after
\* x: int = 5 and y: int = x + 2 in main two slots are allocated, x's holding 5
\* and y's holding 7
C10_DeclarationAllocatesOnce ==
    HasCompiler =>
        /\ \A b \in Blocks(compiler) : \A k \in Allocas(compiler, b) :
              /\ k + 1 \in DOMAIN InstrsOf(compiler, b)
              /\ InstrsOf(compiler, b)[k + 1].op = "store"
              /\ InstrsOf(compiler, b)[k + 1].site = 89
              /\ InstrsOf(compiler, b)[k + 1].operands[2] = ValueOf(InstrsOf(compiler, b)[k])
              /\ \E e \in DOMAIN compiler.envs :
                    /\ InstrsOf(compiler, b)[k].name \in DOMAIN compiler.envs[e].records
                    /\ compiler.envs[e].records[InstrsOf(compiler, b)[k].name][1]
                            = ValueOf(InstrsOf(compiler, b)[k])
        /\ \A b \in Blocks(compiler) : \A j, k \in Allocas(compiler, b) :
              InstrsOf(compiler, b)[j].name = InstrsOf(compiler, b)[k].name => j = k
        /\ \A b \in Blocks(compiler) : \A k \in DOMAIN InstrsOf(compiler, b) :
              (InstrsOf(compiler, b)[k].op = "store" /\ InstrsOf(compiler, b)[k].site = 97)
              => \E c \in Blocks(compiler) : \E j \in Allocas(compiler, c) :
                    /\ InstrsOf(compiler, c)[j].id < InstrsOf(compiler, b)[k].id
                    /\ InstrsOf(compiler, b)[k].operands[2] = ValueOf(InstrsOf(compiler, c)[j])
        /\ (/\ pc = "compiled"
            /\ Len(program) = 1
            /\ program[1].type = "FunctionStatement")
           => Cardinality(Allocas(compiler, 1)) = Cardinality(DeclaredIn(program[1].body))
        /\ (pc = "compiled" /\ source = TwoSlotsSource)
           => /\ Cardinality(Allocas(compiler, 1)) = 2
              /\ MemoryAfter(compiler, 1)[SlotOf(compiler, 1, <<"x">>)] = Num(5)
              /\ MemoryAfter(compiler, 1)[SlotOf(compiler, 1, <<"y">>)] = Num(7)

\* C10 witness: x: int = 5 and y: int = x + 2 were compiled in main, and y's
\* slot holds 7 after main's block
C10_Witness ==
    /\ pc = "compiled"
    /\ source = TwoSlotsSource
    /\ compiler.fault = "None"
    /\ Cardinality(Allocas(compiler, 1)) = 2
    /\ MemoryAfter(compiler, 1)[SlotOf(compiler, 1, <<"y">>)] = Num(7)

-----------------------------------------------------------------------------
(* Claims about functions and scopes, checked under Spec *)

IsFunctionStatement(n) == n.type = "FunctionStatement"
IsReturnStatement(n) == n.type = "ReturnStatement"
IsRet(i) == i.op = "ret"

\* the FunctionStatement nodes of the program, in the order they are compiled
FunctionNodes == SelectSeq(SubnodesOfAll(program), IsFunctionStatement)

\* the position in block b of its k-th ret instruction
NthRet(c, b, k) ==
    CHOOSE p \in DOMAIN InstrsOf(c, b) :
        /\ IsRet(InstrsOf(c, b)[p])
        /\ Cardinality({q \in 1..p : IsRet(InstrsOf(c, b)[q])}) = k

\* the ret at position p of instrs returns the value of the expression expr:
\* the constant of a literal, and otherwise what the instruction emitted last
\* for the expression yielded
ReturnsValueOf(instrs, p, expr) ==
    CASE expr.type = "IntegerLiteral" ->
            instrs[p].operands = <<Constant(IntType, expr.value)>>
      [] expr.type = "FloatLiteral" ->
            instrs[p].operands = <<Constant(FloatType, expr.value)>>
      [] expr.type = "IdentifierLiteral" ->
            /\ p > 1
            /\ instrs[p - 1].op = "load"
            /\ instrs[p].operands = <<ValueOf(instrs[p - 1])>>
      [] expr.type = "CallExpression" ->
            /\ p > 1
            /\ instrs[p - 1].op = "call"
            /\ instrs[p].operands = <<ValueOf(instrs[p - 1])>>
      [] expr.type = "InfixExpression" ->
            \/ IsMixedInfix(expr)
            \/ IsUnimplementedInfix(expr)
            \/ /\ p > 1
               /\ instrs[p - 1].op \in ArithmeticOps
               /\ instrs[p].operands = <<ValueOf(instrs[p - 1])>>
      [] OTHER -> FALSE

\* the value that the last instruction of block b, a ret, returns when the
\* block is executed
ReturnedBy(c, b) ==
    Val(InstrsOf(c, b)[Len(InstrsOf(c, b))].operands[1],
        Exec(InstrsOf(c, b), 1, [regs |-> [i \in 1..c.ninstr |-> Undefined],
                                 mem  |-> [i \in 1..c.ninstr |-> Undefined]]))

\* C11: every function declaration compiles to a function with exactly one
\* basic block, the k-th function owning the k-th block; once the program is
\* compiled, the block of a function has a ret exactly when the function's
\* body has a return statement, and its first ret, the block's terminator,
\* returns the value of the expression of the body's first return statement;
\* and for def add() -> int: return 1 + 2 the one block of the one function
\* ends with a ret that returns 3
C11_OneBlockReturnTerminated ==
    HasCompiler =>
        /\ Len(compiler.blocks) = Len(compiler.functions)
        /\ \A f \in DOMAIN compiler.functions :
              /\ compiler.functions[f].blocks = <<f>>
              /\ compiler.blocks[f].function = f
        /\ pc = "compiled" =>
              /\ Len(FunctionNodes) = Len(compiler.functions)
              /\ \A f \in DOMAIN FunctionNodes :
                    IF SelectSeq(FunctionNodes[f].body.statements, IsReturnStatement) = <<>>
                    THEN SelectSeq(InstrsOf(compiler, f), IsRet) = <<>>
                    ELSE /\ SelectSeq(InstrsOf(compiler, f), IsRet) # <<>>
                         /\ ReturnsValueOf(InstrsOf(compiler, f), NthRet(compiler, f, 1),
                                SelectSeq(FunctionNodes[f].body.statements,
                                          IsReturnStatement)[1].return_value)
        /\ (pc = "compiled" /\ source = AddSource) =>
              /\ Len(compiler.functions) = 1
              /\ Len(compiler.blocks) = 1
              /\ Len(SelectSeq(InstrsOf(compiler, 1), IsRet)) = 1
              /\ IsRet(InstrsOf(compiler, 1)[Len(InstrsOf(compiler, 1))])
              /\ ReturnedBy(compiler, 1) = Num(3)

\* C11 witness: def add() -> int: return 1 + 2 was compiled, and the block of
\* add ends with a ret of the sum
C11_Witness ==
    /\ pc = "compiled"
    /\ source = AddSource
    /\ Len(compiler.blocks) = 1
    /\ Len(InstrsOf(compiler, 1)) = 2
    /\ InstrsOf(compiler, 1)[1].op = "add"
    /\ InstrsOf(compiler, 1)[2].op = "ret"
    /\ ReturnedBy(compiler, 1) = Num(3)

\* the names that the statements of a sequence declare themselves: variables
\* and functions, not what the bodies of those functions declare
DirectlyDeclared(statements) ==
    {statements[k].name.value :
        k \in {j \in DOMAIN statements :
                  statements[j].type \in {"VariableStatement", "FunctionStatement"}}}

\* the names an Environment of the compiler may bind: the global one those
\* declared at module level, the one of the f-th function that function's
\* name and those its body declares
OwnNames(e) ==
    IF e = 1 THEN DirectlyDeclared(program)
    ELSE {FunctionNodes[e - 1].name.value}
         \cup DirectlyDeclared(FunctionNodes[e - 1].body.statements)

\* the step compiles a function declaration of the module level to its end
CompilesFunction ==
    /\ pc = "compile"
    /\ compiled' = compiled + 1
    /\ program[compiled + 1].type = "FunctionStatement"
    /\ compiler'.fault = "None"

\* C14: compiling a function declaration leaves the compiler in the
\* Environment it was in, changes of that Environment's records only the one
\* of the function's name, which becomes (function, return type), and leaves
\* every other Environment that existed as it was; and no Environment ever
\* binds a name that was declared in the body of a function nested in its
\* own function: once the program is compiled the global Environment is the
\* active one and every function is bound in the Environment enclosing it
C14_FunctionScopeDiscarded ==
    /\ [][CompilesFunction =>
            /\ compiler'.env = compiler.env
            /\ DOMAIN compiler'.envs[compiler.env].records
                  = DOMAIN compiler.envs[compiler.env].records
                    \cup {program[compiled + 1].name.value}
            /\ \A n \in DOMAIN compiler.envs[compiler.env].records :
                  n # program[compiled + 1].name.value
                  => compiler'.envs[compiler.env].records[n]
                        = compiler.envs[compiler.env].records[n]
            /\ compiler'.envs[compiler.env].records[program[compiled + 1].name.value]
                  = <<[kind |-> "func", name |-> program[compiled + 1].name.value,
                       index |-> Len(compiler.functions) + 1],
                      type_map(program[compiled + 1].return_type)>>
            /\ \A e \in DOMAIN compiler.envs :
                  e # compiler.env => compiler'.envs[e] = compiler.envs[e]]_vars
    /\ [](HasCompiler =>
            /\ \A e \in DOMAIN compiler.envs :
                  DOMAIN compiler.envs[e].records \subseteq OwnNames(e)
            /\ pc = "compiled" =>
                  /\ compiler.env = 1
                  /\ \A f \in DOMAIN FunctionNodes :
                        /\ FunctionNodes[f].name.value
                              \in DOMAIN compiler.envs[compiler.envs[f + 1].parent].records
                        /\ compiler.envs[compiler.envs[f + 1].parent]
                                .records[FunctionNodes[f].name.value][1].kind = "func")

\* C14 witness: a function whose body declares a variable and a nested
\* function was compiled; the global Environment is active and binds the
\* outer function only
C14_Witness ==
    /\ pc = "compiled"
    /\ Len(compiler.envs) = 3
    /\ compiler.env = 1
    /\ DOMAIN compiler.envs[1].records = {<<"m", "a", "i", "n">>}
    /\ <<"x">> \in DOMAIN compiler.envs[2].records
    /\ <<"g">> \in DOMAIN compiler.envs[2].records
    /\ compiler.envs[3].parent = 2

\* C18: whenever the processing of a function declaration has ended, cleanly,
\* with diagnostics or with a fault in its body, the builder and the active
\* Environment are the ones from before the declaration: between the
\* statements of the module level, and after the compilation has ended in
\* any way, the compiler has the global Environment active and its builder
\* is the one without a block
C18_BalancedPushPop ==
    HasCompiler => (compiler.env = 1 /\ compiler.builder = 0)

IsAssignStatement(n) == n.type = "AssignStatement"
IsAssignStore(i) == i.op = "store" /\ i.site = 168
IsNotDeclared(e) == e.msg = "has not been declared"

\* the names that the statements before the k-th one have declared as
\* variables
DeclaredBefore(statements, k) ==
    {statements[j].name.value :
        j \in {i \in 1..(k - 1) : statements[i].type = "VariableStatement"}}

RECURSIVE AssignOutcomes(_, _, _)
\* for each assignment among the statements from the k-th on, in order, its
\* name and whether the name is bound where the assignment stands in the body
\* of the function fname
AssignOutcomes(statements, k, fname) ==
    IF k > Len(statements) THEN <<>>
    ELSE (IF statements[k].type = "AssignStatement"
          THEN <<[name |-> statements[k].identifier.value,
                  bound |-> statements[k].identifier.value
                               \in DeclaredBefore(statements, k) \cup {fname}]>>
          ELSE <<>>)
         \o AssignOutcomes(statements, k + 1, fname)

IsBoundOutcome(o) == o.bound
IsUnboundOutcome(o) == ~o.bound

\* the program is one function whose body declares no function
IsFlatFunction ==
    /\ Len(program) = 1
    /\ program[1].type = "FunctionStatement"
    /\ \A k \in DOMAIN program[1].body.statements :
          program[1].body.statements[k].type # "FunctionStatement"

\* the step compiles an assignment of the module level to its end
CompilesAssignment ==
    /\ pc = "compile"
    /\ compiled' = compiled + 1
    /\ program[compiled + 1].type = "AssignStatement"
    /\ compiler'.fault = "None"

\* the store instructions of the compiler c
Stores(c) ==
    {<<b, k>> \in Blocks(c) \X (1..c.ninstr) :
        k \in DOMAIN InstrsOf(c, b) /\ InstrsOf(c, b)[k].op = "store"}

AllAllocas(c) ==
    {<<b, k>> \in Blocks(c) \X (1..c.ninstr) : k \in Allocas(c, b)}

IsUnboundIdentifier(n) ==
    /\ n.type = "IdentifierLiteral"
    /\ \A e \in DOMAIN compiler'.envs : n.value \notin DOMAIN compiler'.envs[e].records

\* C20: evaluating an identifier whose name is unbound records a diagnostic
\* and raises no exception
C20_UnboundIdentifierReported ==
    [][CompilesNodeThat(IsUnboundIdentifier) =>
            /\ compiler'.fault = "None"
            /\ DiagnosticAppended]_vars

-----------------------------------------------------------------------------
(* Claims about the driver, checked under Spec *)

\* C15: a Compiler exists only after parse_program returned with an empty
\* error list, and when parse_program returned with errors the driver's next
\* step is the exit with status 1, no Compiler being constructed
C15_NoCompileAfterParseErrors ==
    /\ [](HasCompiler =>
            /\ pc \in {"compile", "compiled", "crashed", "exit_1", "executed"}
            /\ parser.errors = <<>>)
    /\ [][(pc = "parsed" /\ parser.errors # <<>>) =>
              (pc' = "exit_1" /\ compiler' = compiler)]_vars
    /\ [][pc' = "compile" => parser.errors = <<>>]_vars

\* C15 witness: parse_program returned with diagnostics and the driver exited
\* with status 1 without constructing a Compiler
C15_Witness ==
    /\ pc = "exit_1"
    /\ parser.errors # <<>>
    /\ ~HasCompiler
    /\ program # <<>>

\* C16: the compiled entry point is executed only when the compile
\* diagnostic list is empty as well: a module whose generation recorded a
\* diagnostic is not handed to the execution engine
C16_CompileErrorsBlockExecution ==
    pc = "executed" => (parser.errors = <<>> /\ compiler.errors = <<>>)

-----------------------------------------------------------------------------
(* Claims about Environment, checked under SpecEnv *)

RECURSIVE ScopeChain(_, _)
\* the Environment e and the ones its parent links lead to
ScopeChain(envs, e) == IF e = 0 THEN {} ELSE {e} \cup ScopeChain(envs, envs[e].parent)

\* the Environments of the chain of e that bind name
Binders(envs, e, name) == {a \in ScopeChain(envs, e) : name \in DOMAIN envs[a].records}

\* the innermost of them: every other one is reached from it by parent links
Innermost(envs, e, name) ==
    CHOOSE a \in Binders(envs, e, name) : Binders(envs, e, name) \subseteq ScopeChain(envs, a)

\* C12: a lookup returns the binding of the innermost Environment of the chain
\* that binds the name, and the unbound result exactly when no Environment of
\* the chain binds it
C12_LookupInnermost ==
    [][\A name \in ScopeNames :
          EnvLookup(name) =>
             /\ (looked'.result = <<>>) <=> (Binders(scopes, scope, name) = {})
             /\ Binders(scopes, scope, name) # {} =>
                   looked'.result
                     = scopes[Innermost(scopes, scope, name)].records[name]]_vars

\* C12 witness: a lookup from an inner Environment returned its own binding of
\* a name that an outer Environment of the chain binds differently
C12_Witness ==
    /\ pc = "scopes"
    /\ looked # <<>>
    /\ scope > 1
    /\ looked.name \in DOMAIN scopes[scope].records
    /\ looked.result = scopes[scope].records[looked.name]
    /\ \E a \in ScopeChain(scopes, scope) \ {scope} :
          /\ looked.name \in DOMAIN scopes[a].records
          /\ scopes[a].records[looked.name] # looked.result

\* C13: a define changes the record of the name in the current Environment
\* and nothing else: the other records of the current Environment, its parent
\* and name, and every other Environment are as before, and a lookup of the
\* name from the current Environment yields the pair just defined
C13_DefineOnlyCurrentScope ==
    [][\A name \in ScopeNames, binding \in ScopeBindings :
          EnvDefine(name, binding) =>
             /\ DOMAIN scopes' = DOMAIN scopes
             /\ \A e \in DOMAIN scopes : e # scope => scopes'[e] = scopes[e]
             /\ scopes'[scope].parent = scopes[scope].parent
             /\ scopes'[scope].name = scopes[scope].name
             /\ DOMAIN scopes'[scope].records = DOMAIN scopes[scope].records \cup {name}
             /\ \A n \in DOMAIN scopes[scope].records :
                   n # name => scopes'[scope].records[n] = scopes[scope].records[n]
             /\ lookup(scopes', scope, name) = binding]_vars

\* C13 witness: an inner Environment binds a name to one pair while an outer
\* Environment of its chain still binds it to the other, and binds a second
\* name of its own
C13_Witness ==
    /\ pc = "scopes"
    /\ scope > 1
    /\ DOMAIN scopes[scope].records = ScopeNames
    /\ \E a \in ScopeChain(scopes, scope) \ {scope} :
          /\ <<"x">> \in DOMAIN scopes[a].records
          /\ scopes[a].records[<<"x">>] # scopes[scope].records[<<"x">>]

-----------------------------------------------------------------------------
(* Claims about several Compiler objects, checked under SpecProcess *)

\* C17: two compilations in one process are independent: in every
\* interleaving, each Compiler object is what compiling the statements it was
\* given so far yields alone, with its own Environments, error list and
\* module, whatever the other compilation has done before
C17_CompilationsIndependent ==
    pc = "process" =>
        \A i \in 1..2 :
            instances[i] # NoCompiler =>
                instances[i] = compile_all(CompilerInit, SubSeq(inputs[i], 1, progress[i]), 1)

\* a step of one Compiler object leaves every other Compiler object as it was
ProcFrame ==
    [][\A i \in 1..2 :
          (ProcNew(i) \/ ProcCompile(i)) =>
              \A j \in 1..2 : j # i => instances'[j] = instances[j]]_vars

-----------------------------------------------------------------------------
(* Claims about the binding of a function's own name, checked under Spec *)

\* the function value and return type that the f-th function is bound to
FunctionBinding(f) ==
    <<[kind |-> "func", name |-> FunctionNodes[f].name.value, index |-> f],
      type_map(FunctionNodes[f].return_type)>>

\* no other function of the program has the name of the f-th one
NameIsOwn(f) ==
    \A g \in DOMAIN FunctionNodes :
        FunctionNodes[g].name.value = FunctionNodes[f].name.value => g = f

\* the next statement of the module level is a function declaration that
\* compiles
AtFunction ==
    /\ pc = "compile"
    /\ compiled < Len(program)
    /\ program[compiled + 1].type = "FunctionStatement"
    /\ program[compiled + 1].parameters = <<>>
    /\ type_map(program[compiled + 1].return_type) # NoneType

\* the compiler as it is when the first body statement of that declaration is
\* compiled
Entered ==
    function_enter(compiler, program[compiled + 1].name.value,
                   type_map(program[compiled + 1].return_type))

\* the body of the f-th function is return <its own name>()
IsSelfRecursive(f) ==
    /\ Len(FunctionNodes[f].body.statements) = 1
    /\ FunctionNodes[f].body.statements[1].type = "ReturnStatement"
    /\ FunctionNodes[f].body.statements[1].return_value.type = "CallExpression"
    /\ FunctionNodes[f].body.statements[1].return_value.function
          = FunctionNodes[f].name

\* C21 as stated: while the body of a function is compiled, the records of the
\* enclosing Environment bind the function's name
C21_BoundInOuterBeforeBody ==
    /\ HasCompiler =>
          \A e \in DOMAIN compiler.envs :
              e > 1 => FunctionNodes[e - 1].name.value
                          \in DOMAIN compiler.envs[compiler.envs[e].parent].records
    /\ AtFunction =>
          program[compiled + 1].name.value
              \in DOMAIN Entered.envs[compiler.env].records

\* C21 amended: before the first body statement is compiled the function's
\* name is bound in the records of the function's own new Environment, the
\* enclosing one being as it was; from there a lookup of the name yields the
\* function with its declared return type; the own Environment keeps the
\* binding, during the body and after it; after the body the enclosing
\* Environment binds the name to the same pair; and a self-recursive call
\* compiles to a call of the function
C21_BoundInOwnScopeThenOuter ==
    /\ AtFunction =>
          /\ Entered.env = Len(compiler.envs) + 1
          /\ Entered.envs[Entered.env].parent = compiler.env
          /\ program[compiled + 1].name.value
                \in DOMAIN Entered.envs[Entered.env].records
          /\ \A e \in DOMAIN compiler.envs : Entered.envs[e] = compiler.envs[e]
          /\ lookup(Entered.envs, Entered.env, program[compiled + 1].name.value)
                = <<[kind |-> "func", name |-> program[compiled + 1].name.value,
                     index |-> Len(compiler.functions) + 1],
                    type_map(program[compiled + 1].return_type)>>
    /\ HasCompiler =>
          \A e \in DOMAIN compiler.envs :
              (e > 1 /\ NameIsOwn(e - 1)) =>
                  /\ FunctionNodes[e - 1].name.value \in DOMAIN compiler.envs[e].records
                  /\ compiler.envs[e].records[FunctionNodes[e - 1].name.value]
                        = FunctionBinding(e - 1)
    /\ pc = "compiled" =>
          \A f \in DOMAIN FunctionNodes :
              /\ FunctionNodes[f].name.value
                    \in DOMAIN compiler.envs[compiler.envs[f + 1].parent].records
              /\ NameIsOwn(f) =>
                    compiler.envs[compiler.envs[f + 1].parent]
                        .records[FunctionNodes[f].name.value] = FunctionBinding(f)
              /\ IsSelfRecursive(f) =>
                    /\ Len(InstrsOf(compiler, f)) = 2
                    /\ InstrsOf(compiler, f)[1].op = "call"
                    /\ InstrsOf(compiler, f)[1].operands = <<FunctionBinding(f)[1]>>
                    /\ InstrsOf(compiler, f)[1].type = FunctionBinding(f)[2]

\* C21 witness: def main() -> int: return main() was compiled: main's block
\* calls main, and the global Environment binds main
C21_Witness ==
    /\ pc = "compiled"
    /\ Len(FunctionNodes) = 1
    /\ IsSelfRecursive(1)
    /\ InstrsOf(compiler, 1)[1].op = "call"
    /\ InstrsOf(compiler, 1)[1].operands = <<FunctionBinding(1)[1]>>
    /\ compiler.envs[1].records[FunctionNodes[1].name.value] = FunctionBinding(1)

-----------------------------------------------------------------------------
(* Claims about declarations with an unsupported annotation, checked under *)
(* SpecProcess                                                             *)

\* the statement the i-th Compiler compiles next declares a variable with an
\* annotation other than int and float
AtUnsupportedDeclaration(i) ==
    /\ progress[i] < Len(inputs[i])
    /\ inputs[i][progress[i] + 1].type = "VariableStatement"
    /\ inputs[i][progress[i] + 1].value_type \notin TYPE_KEYWORDS

-----------------------------------------------------------------------------
(* Claims about statement dispatch, checked under Spec *)

\* the parser as it is when parse_program's loop hands over to
\* __parse_statement and the NEWLINE tokens are skipped
Dispatched == skip_newlines(TheParser)

\* the statement kind that the current token and the lookahead token select
StatementKind(p) ==
    IF current_token_is(p, "IDENTIFIER")
    THEN IF peek_token_is(p, "EQ") THEN "AssignStatement" ELSE "VariableStatement"
    ELSE IF current_token_is(p, "DEF") THEN "FunctionStatement"
    ELSE IF current_token_is(p, "RETURN") THEN "ReturnStatement"
    ELSE "ExpressionStatement"

\* the sub-parsers that can yield no statement
CanFail == {"VariableStatement", "FunctionStatement", "ReturnStatement"}

\* C24: the statement that one turn of parse_program's loop appends has the
\* kind selected by the current token and the lookahead token alone:
\* IDENTIFIER followed by = gives an assignment, IDENTIFIER otherwise a
\* variable declaration, def a function declaration, return a return
\* statement, every other token an expression statement; when nothing is
\* appended, the sub-parser selected is one that can fail and a diagnostic was
\* recorded; so an identifier followed by ( records a diagnostic and yields
\* no statement
C24_DispatchByTwoTokens ==
    [][ParseProgramIter =>
          /\ Len(program') \in {Len(program), Len(program) + 1}
          /\ Len(program') = Len(program) + 1 =>
                /\ SubSeq(program', 1, Len(program)) = program
                /\ program'[Len(program')].type = StatementKind(Dispatched)
          /\ Len(program') = Len(program) =>
                /\ StatementKind(Dispatched) \in CanFail
                /\ Len(parser'.errors) > Len(parser.errors)
          /\ (current_token_is(Dispatched, "IDENTIFIER")
                /\ peek_token_is(Dispatched, "LPAREN")) =>
                /\ program' = program
                /\ Len(parser'.errors) > Len(parser.errors)]_vars

\* C24 witness: a turn of the loop dispatched on a line that starts with
\* x ( and recorded a diagnostic without yielding a statement
C24_Witness ==
    /\ iter >= 1
    /\ Len(source) >= 3
    /\ SubSeq(source, 1, 3) = <<"x", " ", "(">>
    /\ program = <<>>
    /\ Len(parser.errors) > 0

-----------------------------------------------------------------------------
(* Claims about function bodies, checked under Spec *)

\* the positions of the function declarations among the statements
FunctionsAt(statements) ==
    {i \in 1..Len(statements) : statements[i].type = "FunctionStatement"}

\* C25: a block runs to the end of the input: when a turn of parse_program's
\* loop yields a function declaration, the parser stands at EOF, with nothing
\* left to lex; so a function declaration of the Program, or of a body, is the
\* last statement of its list, and there is at most one in each list
C25_BlockRunsToEof ==
    /\ [][(ParseProgramIter /\ FunctionsAt(program') # {}) =>
             /\ parser'.current_token.type = "EOF"
             /\ parser'.peek_token.type = "EOF"
             /\ lexer'.current_char = None]_vars
    /\ [](/\ FunctionsAt(program) \subseteq {Len(program)}
          /\ \A f \in DOMAIN FunctionNodes :
                FunctionsAt(FunctionNodes[f].body.statements)
                    \subseteq {Len(FunctionNodes[f].body.statements)})

\* C25 witness: the Program is one function whose body holds the three lines
\* after its header: a declaration and a nested function, whose body in turn
\* holds the line after the nested header
C25_Witness ==
    /\ pc = "parsed"
    /\ Len(program) = 1
    /\ program[1].type = "FunctionStatement"
    /\ Len(program[1].body.statements) = 2
    /\ program[1].body.statements[1].type = "VariableStatement"
    /\ program[1].body.statements[2].type = "FunctionStatement"
    /\ Len(program[1].body.statements[2].body.statements) = 1
    /\ parser.current_token.type = "EOF"

\* C26: once the first statement of def f(a) -> int: return 1 is parsed, no
\* diagnostic is recorded and the Program starts with a function declaration
\* that carries the parameter
C26_ParametersParsed ==
    (source = ParameterSource /\ iter >= 1) =>
        /\ parser.errors = <<>>
        /\ Len(program) >= 1
        /\ program[1].type = "FunctionStatement"
        /\ program[1].parameters # <<>>

-----------------------------------------------------------------------------
(* Claims about the dispatch of Compiler.compile, checked under Spec *)

\* C27: compiling a statement of the Program emits an instruction or a
\* function, or appends a diagnostic, or raises: no statement is passed over
\* without a trace
C27_NoSilentNode ==
    [][CompileStatement =>
          \/ compiler'.ninstr > compiler.ninstr
          \/ Len(compiler'.functions) > Len(compiler.functions)
          \/ Len(compiler'.errors) > Len(compiler.errors)
          \/ compiler'.fault # "None"]_vars

-----------------------------------------------------------------------------
(* Claims about arithmetic on operands of one kind, checked under Spec *)

\* operand kind, operator, instruction
OperatorTable ==
    {<<"int", <<"+">>, "add">>, <<"int", <<"-">>, "sub">>, <<"int", <<"*">>, "mul">>,
     <<"int", <<"/">>, "sdiv">>, <<"int", <<"%">>, "srem">>,
     <<"float", <<"+">>, "fadd">>, <<"float", <<"-">>, "fsub">>,
     <<"float", <<"*">>, "fmul">>, <<"float", <<"/">>, "fdiv">>}

KindType(kind) == IF kind = "int" THEN IntType ELSE FloatType

HasInstruction(kind, operator) ==
    \E t \in OperatorTable : t[1] = kind /\ t[2] = operator

\* an infix expression of two literals of one kind whose operator is in the
\* table
IsListedInfix(n) ==
    /\ n.type = "InfixExpression"
    /\ Kind(n.left_node) = Kind(n.right_node)
    /\ HasInstruction(Kind(n.left_node), n.operator)

\* ins is the instruction of the operator on operands of the kind, applied to
\* left and right
IsInstructionOf(ins, kind, operator, left, right) ==
    /\ <<kind, operator, ins.op>> \in OperatorTable
    /\ ins.type = KindType(kind)
    /\ ins.operands = <<left, right>>

\* ins is the instruction of the infix expression n of two literals
IsInstructionOfLiterals(ins, n) ==
    IsInstructionOf(ins, Kind(n.left_node), n.operator,
                    Constant(KindType(Kind(n.left_node)), n.left_node.value),
                    Constant(KindType(Kind(n.left_node)), n.right_node.value))

\* the step compiles an expression statement of the module level
CompilesExpressionStatement ==
    /\ CompileStatement
    /\ program[compiled + 1].type = "ExpressionStatement"

\* the expression of that statement
TheExpr == program[compiled + 1].expr

\* an infix expression whose operands are both infix expressions of literals
\* of one and the same kind, with operators of the table throughout
IsListedInfixOfInfixes(n) ==
    /\ n.type = "InfixExpression"
    /\ IsListedInfix(n.left_node)
    /\ IsListedInfix(n.right_node)
    /\ Kind(n.left_node.left_node) = Kind(n.right_node.left_node)
    /\ HasInstruction(Kind(n.left_node.left_node), n.operator)

\* the instructions the step emits at the module level
NewInstrs == SubSeq(compiler'.nowhere, Len(compiler.nowhere) + 1, Len(compiler'.nowhere))

\* C28: an infix expression of two operands of one kind with an operator of
\* the table compiles to exactly one arithmetic instruction, the one the table
\* gives for the kind and the operator, typed with the operand kind and
\* applied to the left and the right operand in this order; when both
\* operands are such expressions themselves, the instruction of the left
\* operand is emitted before that of the right operand
C28_OneInstructionPerInfix ==
    [][CompilesExpressionStatement =>
          /\ IsListedInfix(TheExpr) =>
                /\ compiler'.ninstr = compiler.ninstr + 1
                /\ Len(NewInstrs) = 1
                /\ IsInstructionOfLiterals(NewInstrs[1], TheExpr)
                /\ compiler'.errors = compiler.errors
                /\ compiler'.fault = "None"
          /\ IsListedInfixOfInfixes(TheExpr) =>
                /\ compiler'.ninstr = compiler.ninstr + 3
                /\ Len(NewInstrs) = 3
                /\ IsInstructionOfLiterals(NewInstrs[1], TheExpr.left_node)
                /\ IsInstructionOfLiterals(NewInstrs[2], TheExpr.right_node)
                /\ IsInstructionOf(NewInstrs[3], Kind(TheExpr.left_node.left_node),
                                   TheExpr.operator,
                                   ValueOf(NewInstrs[1]), ValueOf(NewInstrs[2]))]_vars

\* C28 witness: 1.5 / 2.5 - 3.5 * 4.5 was compiled to fdiv, fmul, fsub
C28_Witness ==
    /\ pc = "compiled"
    /\ Len(program) = 1
    /\ program[1].type = "ExpressionStatement"
    /\ IsListedInfixOfInfixes(program[1].expr)
    /\ Len(compiler.nowhere) = 3
    /\ compiler.nowhere[1].op = "fdiv"
    /\ compiler.nowhere[2].op = "fmul"
    /\ compiler.nowhere[3].op = "fsub"
    /\ compiler.nowhere[3].operands
          = <<ValueOf(compiler.nowhere[1]), ValueOf(compiler.nowhere[2])>>

-----------------------------------------------------------------------------
(* Claims about operators of one precedence class, checked under Spec *)

\* C29: two infix operators of the same precedence class associate to the
\* left, in the sum, the product and the exponent class alike:
\* o1 op1 o2 op2 o3 parses to Infix(Infix(o1, op1, o2), op2, o3) without a
\* diagnostic
C29_EqualPrecedenceLeftAssociative ==
    (pc = "parsed" /\ source \in ExprSources) =>
        \A c \in ExprContexts, o1 \in FirstOperands, op1 \in OperatorLexemes,
           o2 \in MiddleOperands, op2 \in OperatorLexemes, o3 \in LastOperands :
           (/\ source = c.pre \o Join(<<o1, op1, o2, op2, o3>>) \o c.post
            /\ IsExpressionPosition(c, o1)
            /\ OpClass(op1) = OpClass(op2))
           => /\ Len(program) = 1
              /\ program[1] = InContext(c,
                    InfixExpression(
                        InfixExpression(OperandNode(o1), op1, OperandNode(o2)),
                        op2, OperandNode(o3)))
              /\ parser.errors = <<>>

\* C29 witness: 2 ** 3 ** 4 was parsed to Infix(Infix(2, **, 3), **, 4)
C29_Witness ==
    /\ pc = "parsed"
    /\ source = Join(<<<<"2">>, <<"*", "*">>, <<"3">>, <<"*", "*">>, <<"4">>>>) \o NL
    /\ program = <<ExpressionStatement(
            InfixExpression(
                InfixExpression(IntegerLiteral(2), <<"*", "*">>, IntegerLiteral(3)),
                <<"*", "*">>, IntegerLiteral(4)))>>

-----------------------------------------------------------------------------
(* Claims about the rest of a declaration's line, checked under Spec *)

\* C30: the tokens between the value expression of a declaration and the next
\* NEWLINE or EOF are discarded without a diagnostic, ILLEGAL tokens
\* included: x: int = 5 followed by such tokens parses to the Program of
\* x: int = 5 alone, in one turn of parse_program's loop
C30_TrailingTokensDiscarded ==
    (source \in TrailingSources /\ iter >= 1) =>
        /\ iter = 1
        /\ program = <<VariableStatement(IdentifierLiteral(<<"x">>), IntegerLiteral(5), TY_int)>>
        /\ parser.errors = <<>>
        /\ parser.current_token.type = "EOF"

\* C30 witness: x: int = 5 @ 7 was parsed to the declaration of x with 5
C30_Witness ==
    /\ pc = "parsed"
    /\ source = DeclarationSource \o <<"@", " ", "7", " ">> \o NL
    /\ program = <<VariableStatement(IdentifierLiteral(<<"x">>), IntegerLiteral(5), TY_int)>>
    /\ parser.errors = <<>>

=============================================================================
